---- MODULE Spec2Model ----
(***************************************************************************)
(* Broadcast hub (src/src/broadcast/broadcast_manager.ts) and its browser  *)
(* client (src/src/broadcast/client.ts).                                   *)
(*                                                                         *)
(* Spec       : the hub alone, driven by arbitrary transport events of up  *)
(*              to MaxConn connections and by server-side broadcasts.      *)
(* ClientSpec : one Broadcast client talking to the hub over a transport   *)
(*              that can drop, with the user calling subscribe, leave,     *)
(*              send and close.                                            *)
(***************************************************************************)
EXTENDS Bags, FiniteSets, Integers, Sequences, TLC

(* ------------------------------ bounds -------------------------------- *)
MaxConn == 3        \* transports the hub accepts in one run
MaxPending == 2     \* handleSubscribe invocations suspended at one time
MaxHeld == 1        \* handleMessage invocations suspended at one time
MaxDefs == 3        \* channel() calls in the runs of RegistrySpec
MaxLimit == 3       \* largest finite maxReconnectAttempts in the runs of AttemptsSpec
MaxSegs == 3        \* segments of a pattern in the runs of PatternSpec
MaxName == 5        \* characters of a name in the runs of PatternSpec
MaxSend == 2        \* Subscription.send calls in one run
MaxWire == 1        \* envelopes in flight in one direction
MaxReconnects == 1  \* transports the hub accepts from the client after its first
MaxQueue == 2       \* frames the client buffers while it is not connected
MaxAttempts == 1    \* consecutive connection attempts that fail before they open
MaxBackoff == 7     \* the same, in the runs of BackoffSpec
MaxRace == 2        \* transports the hub accepts in the runs of RaceSpec

Ids == 1..MaxConn
NoId == 0           \* null / undefined client id

(* --------------------------- wire protocol ---------------------------- *)
\* One JSON envelope {t, c, e, r, d, id}; absent keys are "" or 0.
Env(t, c, e, r, d, id) == [t |-> t, c |-> c, e |-> e, r |-> r, d |-> d, id |-> id]
WelcomeEnv(id) == Env("welcome", "", "", "", 0, id)
OkEnv(c) == Env("ok", c, "", "", 0, NoId)
ErrEnv(c, r) == Env("err", c, "", r, 0, NoId)
MsgEnv(c, e, d) == Env("msg", c, e, "", d, NoId)
PingEnv == Env("ping", "", "", "", 0, NoId)
SubEnv(c) == Env("sub", c, "", "", 0, NoId)
UnsubEnv(c) == Env("unsub", c, "", "", 0, NoId)
PongEnv == Env("pong", "", "", "", 0, NoId)

(* ------------------------ names used in the runs ---------------------- *)
\* Concrete channel names clients ask for; "" is the empty name.
Chan == {"", "news", "chat/1", "nope"}
\* Event names of client messages and broadcasts; "" is the empty event.
Events == {"", "send", "typing"}
\* Payloads: the number of the Subscription.send call that made them.
Data == 1..MaxSend

\* The characters of every name and pattern of the runs.
CharsOf(s) ==
  CASE s = "" -> << >>
    [] s = "news" -> <<"n", "e", "w", "s">>
    [] s = "chat/1" -> <<"c", "h", "a", "t", "/", "1">>
    [] s = "nope" -> <<"n", "o", "p", "e">>
    [] s = "chat/:id" -> <<"c", "h", "a", "t", "/", ":", "i", "d">>
    [] s = "chat/1/2" -> <<"c", "h", "a", "t", "/", "1", "/", "2">>
    [] s = "chat/*rest" -> <<"c", "h", "a", "t", "/", "*", "r", "e", "s", "t">>

WordChars == {"a", "b", "c", "d", "e", "h", "i", "n", "o", "p", "r", "s", "t", "u", "w",
              "x", "y", "z", "1", "2"}

(* --------------------------- Pattern Matcher -------------------------- *)
\* parsePattern: the pattern becomes a list of regular-expression tokens.
\*   "rest" is (.+)    from the first "/*name"
\*   "seg"  is ([^/]+) from every ":name"
\*   "lit"  is a character copied into the regex source as it is
RECURSIVE WordEnd(_, _)
WordEnd(p, i) == IF i <= Len(p) /\ p[i] \in WordChars THEN WordEnd(p, i + 1) ELSE i

RECURSIVE Tokens(_, _, _)
Tokens(p, i, wildDone) ==
  IF i > Len(p) THEN << >>
  ELSE IF ~wildDone /\ p[i] = "/" /\ i + 1 <= Len(p) /\ p[i + 1] = "*"
          /\ WordEnd(p, i + 2) > i + 2
       THEN <<[k |-> "lit", ch |-> "/"], [k |-> "rest", ch |-> ""]>>
              \o Tokens(p, WordEnd(p, i + 2), TRUE)
  ELSE IF p[i] = ":" /\ WordEnd(p, i + 1) > i + 1
       THEN <<[k |-> "seg", ch |-> ""]>> \o Tokens(p, WordEnd(p, i + 1), wildDone)
  ELSE <<[k |-> "lit", ch |-> p[i]]>> \o Tokens(p, i + 1, wildDone)

parsePattern(pattern) == Tokens(CharsOf(pattern), 1, FALSE)

\* A character of the regex source that parsePattern copied from the
\* pattern accepts the character c of a name: "." is the regex atom for any
\* character, every other character of the runs stands for itself.
Accepts(ch, c) == ch = "." \/ ch = c

\* RegExp.exec of a regex built without the closing $
RECURSIVE Exec_Unanchored(_, _, _, _)
Exec_Unanchored(toks, s, i, j) ==
  IF i > Len(toks) THEN TRUE
  ELSE IF toks[i].k = "lit"
       THEN j <= Len(s) /\ Accepts(toks[i].ch, s[j])
              /\ Exec_Unanchored(toks, s, i + 1, j + 1)
  ELSE IF toks[i].k = "seg"
       THEN \E n \in j + 1..Len(s) + 1 :
              /\ \A m \in j..n - 1 : s[m] # "/"
              /\ Exec_Unanchored(toks, s, i + 1, n)
  ELSE \E n \in j + 1..Len(s) + 1 : Exec_Unanchored(toks, s, i + 1, n)

\* RegExp.exec of ^tokens$ on the characters s, from token i and character j.
RECURSIVE Exec(_, _, _, _)
Exec(toks, s, i, j) ==
  IF i > Len(toks) THEN j = Len(s) + 1
  ELSE IF toks[i].k = "lit"
       THEN j <= Len(s) /\ Accepts(toks[i].ch, s[j]) /\ Exec(toks, s, i + 1, j + 1)
  ELSE IF toks[i].k = "seg"
       THEN \E n \in j + 1..Len(s) + 1 :
              /\ \A m \in j..n - 1 : s[m] # "/"
              /\ Exec(toks, s, i + 1, n)
  ELSE \E n \in j + 1..Len(s) + 1 : Exec(toks, s, i + 1, n)

\* The capturing groups of the match Exec finds, in the order of the groups:
\* a quantifier is greedy, so a group takes the longest text that lets the
\* rest of the regex match.
RECURSIVE Groups(_, _, _, _)
Groups(toks, s, i, j) ==
  IF i > Len(toks) THEN << >>
  ELSE IF toks[i].k = "lit" THEN Groups(toks, s, i + 1, j + 1)
  ELSE LET ends == {n \in j + 1..Len(s) + 1 :
                      /\ toks[i].k = "seg" => \A m \in j..n - 1 : s[m] # "/"
                      /\ Exec(toks, s, i + 1, n)}
           n == CHOOSE x \in ends : \A y \in ends : y <= x
       IN <<SubSeq(s, j, n - 1)>> \o Groups(toks, s, i + 1, n)

\* parsePattern lines 62-65: the name the first replace pushes, that of the
\* first "/*name" of the pattern.
RECURSIVE WildcardName(_, _)
WildcardName(p, i) ==
  IF i > Len(p) THEN << >>
  ELSE IF p[i] = "/" /\ i + 1 <= Len(p) /\ p[i + 1] = "*" /\ WordEnd(p, i + 2) > i + 2
       THEN <<SubSeq(p, i + 2, WordEnd(p, i + 2) - 1)>>
  ELSE WildcardName(p, i + 1)

\* parsePattern lines 66-69: the names the second replace pushes, those of
\* every ":name" from left to right.
RECURSIVE ColonNames(_, _)
ColonNames(p, i) ==
  IF i > Len(p) THEN << >>
  ELSE IF p[i] = ":" /\ WordEnd(p, i + 1) > i + 1
       THEN <<SubSeq(p, i + 1, WordEnd(p, i + 1) - 1)>> \o ColonNames(p, WordEnd(p, i + 1))
  ELSE ColonNames(p, i + 1)

\* paramNames as parsePattern returns it.
paramNames(p) == WildcardName(p, 1) \o ColonNames(p, 1)

\* extractParams: params[names[i]] = match[i + 1], a later i overwriting.
extractParams(names, groups) ==
  [n \in {names[i] : i \in 1..Len(names)} |->
     groups[CHOOSE i \in 1..Len(names) :
              names[i] = n /\ \A k \in i + 1..Len(names) : names[k] # n]]

(* --------------------------- Channel Registry ------------------------- *)
\* A ChannelDefinition: authorize is "none" when the channel has no
\* authorization callback, "cb" when it has one; messages is the set of
\* event names that have a handler.
Def(pattern, authorize, messages) ==
  [pattern |-> pattern, regex |-> parsePattern(pattern),
   authorize |-> authorize, messages |-> messages]

\* BroadcastManager.channel called at startup for:
\*   channel('news', { messages: { send } })
\*   channel('chat/:id', { authorize, messages: { send } })
Registered == <<Def("news", "none", {"send"}), Def("chat/:id", "cb", {"send"})>>

\* What an authorization callback can do once it is invoked.
AuthResults == {"true", "false", "throw"}

VARIABLES
  _channels,      \* BroadcastManager._channels: sequence of definitions
  _clients,       \* keys of BroadcastManager._clients
  conn,           \* the ClientConnection objects still referenced, by client id
  _subscribers,   \* BroadcastManager._subscribers: channel name -> set of ids
  pending,        \* bag of handleSubscribe invocations suspended in an await
  hpending,       \* bag of handleMessage invocations suspended in an await
  nextId,         \* the next id crypto.randomUUID hands out
  _pingTimer,     \* TRUE while the keepalive interval is installed
  _middleware,    \* BroadcastManager._middleware: names of the middleware
  written,        \* envelopes passed to ws.send by the running task, per id
  ev              \* the task the event loop is running, "idle" between tasks

\* The Broadcast client, its transport and the user's calls.
VARIABLES
  sock,                 \* readyState of the WebSocket made by the last connect()
  ws,                   \* "null" when this.ws is null, else "set"
  _connected,
  _clientId,
  maxReconnectAttempts,
  reconnectAttempt,
  reconnectTimer,       \* TRUE while a reconnect timeout is pending
  subscriptions,        \* keys of this.subscriptions, in insertion order
  queue,                \* this.queue
  pc,                   \* "emit" inside emit('reconnecting') of scheduleReconnect
  delay,                \* the local `delay` of scheduleReconnect, 0 outside it
  listeners,            \* channel -> the events with a listener on its Subscription
  denied,               \* channels whose Subscription has seen an 'error' event with
                        \* reason 'unauthorized' (history, kept for the claims)
  link,                 \* TRUE while the transport of sock carries frames
  srv,                  \* the id the hub gave to the transport of sock, or NoId
  gone,                 \* ids of broken transports whose close the hub has not run yet
  c2s,                  \* frames in flight from the client to the hub
  s2c,                  \* envelopes in flight from the hub to the client
  nsend,                \* Subscription.send calls made so far
  closeCalled,          \* Broadcast.close has been called
  wsent                 \* frames passed to WebSocket.send by the running task

\* History kept for the claims about frames that overtake a subscribe.
VARIABLES
  since                 \* [id, c, t]: while a subscribe of id for c is suspended,
                        \* t = "msg": a msg of id for c with a registered handler
                        \* was ignored; t = "unsub": the last request of id for c
                        \* was an unsub

clientVars == <<sock, ws, _connected, _clientId, maxReconnectAttempts,
                reconnectAttempt, reconnectTimer, subscriptions, queue, pc, delay, listeners, denied, link,
                srv, gone, c2s, s2c, nsend, closeCalled>>

hubVars == <<_channels, _clients, conn, _subscribers, pending, hpending,
             nextId, _pingTimer, _middleware, since>>
taskVars == <<written, wsent, ev>>

vars == <<hubVars, taskVars, clientVars>>

NoWrites == [i \in Ids |-> << >>]
NoConn == [channels |-> {}, ctxReady |-> "none"]

\* A callback invocation: k is "authorize" or "handler".
Call(k, id, c, e, d) == [k |-> k, id |-> id, c |-> c, e |-> e, d |-> d]

\* op: the handler that runs; id, c, e, d: its arguments; r: what it met
\* (what the authorization callback did, whether the client or the
\* subscription it removes was there); threw: the ids whose ws.send threw;
\* calls: the bag of callbacks the task invoked.
Event(op, id, c, e, d, r, threw, calls) ==
  [op |-> op, id |-> id, c |-> c, e |-> e, d |-> d, r |-> r, threw |-> threw,
   calls |-> calls]
Did(op, id, c) == Event(op, id, c, "", 0, "", {}, EmptyBag)
Idle == Did("idle", NoId, "")

\* matchChannel going through the whole of _channels and keeping the last
\* definition whose regex accepts the name
MatchFrom_Last(defs, name, i) ==
  LET hits == {k \in i..Len(defs) : Exec(defs[k].regex, CharsOf(name), 1, 1)}
  IN IF hits = {} THEN 0 ELSE CHOOSE k \in hits : \A m \in hits : k >= m

\* matchChannel: the first definition whose regex accepts the name, or 0.
MatchFrom(defs, name, i) ==
  LET hits == {k \in i..Len(defs) : Exec(defs[k].regex, CharsOf(name), 1, 1)}
  IN IF hits = {} THEN 0 ELSE CHOOSE k \in hits : \A m \in hits : k <= m

\* matchChannel returning the first definition whatever the name
matchChannel_First(name) == IF Len(_channels) > 0 THEN 1 ELSE 0

matchChannel(name) == MatchFrom(_channels, name, 1)

subscriberCount(channel) ==
  IF channel \in DOMAIN _subscribers THEN Cardinality(_subscribers[channel]) ELSE 0

clientCount == Cardinality(_clients)

\* _subscribers after subs.add(id) on the entry of channel (made if absent).
AddSub(subs, channel, id) ==
  [k \in DOMAIN subs \cup {channel} |->
     IF k = channel
     THEN (IF channel \in DOMAIN subs THEN subs[channel] ELSE {}) \cup {id}
     ELSE subs[k]]

\* DelSub without subs.delete(id)
DelSub_NoDelete(subs, cs, id) == subs

\* DelSub without _subscribers.delete(channel) for an emptied entry
DelSub_KeepEmpty(subs, cs, id) ==
  [k \in DOMAIN subs |-> IF k \in cs THEN subs[k] \ {id} ELSE subs[k]]

\* _subscribers after subs.delete(id) on the entries of the channels in cs,
\* each entry deleted when it becomes empty.
DelSub(subs, cs, id) ==
  LET emptied == {k \in DOMAIN subs \cap cs : subs[k] \ {id} = {}}
  IN [k \in DOMAIN subs \ emptied |-> IF k \in cs THEN subs[k] \ {id} ELSE subs[k]]

\* The invocations of bag b that belong to client id, and the others.
Of(b, id) == LET ks == {p \in DOMAIN b : p.id = id} IN [p \in ks |-> b[p]]
NotOf(b, id) == LET ks == {p \in DOMAIN b : p.id # id} IN [p \in ks |-> b[p]]

\* A ClientConnection object lives as long as _clients or a suspended
\* invocation refers to it; the others are garbage.
Collect(objs, live, pend, hpend) ==
  [i \in Ids |->
     IF i \in live \/ (\E p \in DOMAIN pend : p.id = i) \/ (\E p \in DOMAIN hpend : p.id = i)
     THEN objs[i] ELSE NoConn]

\* The state after boot(router, { middleware }) and the calls of channel().
HubInit ==
  /\ _channels = Registered
  /\ _clients = {}
  /\ conn = [i \in Ids |-> NoConn]
  /\ _subscribers = << >>
  /\ pending = EmptyBag
  /\ hpending = EmptyBag
  /\ nextId = 1
  /\ _pingTimer = TRUE
  /\ _middleware \in {<< >>, <<"session">>}
  /\ written = NoWrites
  /\ ev = Idle
  /\ since = {}

\* The running task returns to the event loop.
Return ==
  /\ ev # Idle
  /\ pc = "run"
  /\ ev' = Idle
  /\ written' = NoWrites
  /\ wsent' = << >>
  /\ UNCHANGED hubVars

(* --------------------------- Connection Manager ----------------------- *)
\* boot: open(ws), were ws.send of line 151 to wait for ctxReady
HubOpen_AwaitContext ==
  /\ nextId <= MaxConn
  /\ _clients' = _clients \cup {nextId}
  /\ conn' = [conn EXCEPT ![nextId] =
                [channels |-> {},
                 ctxReady |-> IF _middleware = << >> THEN "ready" ELSE "pending"]]
  /\ written' = IF _middleware = << >>
                THEN [NoWrites EXCEPT ![nextId] = <<WelcomeEnv(nextId)>>]
                ELSE NoWrites
  /\ nextId' = nextId + 1
  /\ ev' = Did("open", nextId, "")
  /\ UNCHANGED <<_channels, _subscribers, pending, hpending, _pingTimer, _middleware>>

\* boot: open(ws)
HubOpen ==
  /\ nextId <= MaxConn
  /\ _clients' = _clients \cup {nextId}
  /\ conn' = [conn EXCEPT ![nextId] =
                [channels |-> {},
                 ctxReady |-> IF _middleware = << >> THEN "ready" ELSE "pending"]]
  /\ written' = [NoWrites EXCEPT ![nextId] = <<WelcomeEnv(nextId)>>]
  /\ nextId' = nextId + 1
  /\ ev' = Did("open", nextId, "")
  /\ UNCHANGED <<_channels, _subscribers, pending, hpending, _pingTimer, _middleware>>

\* n copies of envelope e
RECURSIVE Times(_, _)
Times(e, n) == IF n = 0 THEN << >> ELSE <<e>> \o Times(e, n - 1)

RECURSIVE ErrsFor(_)
ErrsFor(b) ==
  IF DOMAIN b = {} THEN << >>
  ELSE LET p == CHOOSE q \in DOMAIN b : TRUE
       IN Times(ErrEnv(p.c, "authorization failed"), b[p])
            \o ErrsFor([q \in DOMAIN b \ {p} |-> b[q]])

\* buildContext settles (ok: the middleware pipeline returned, otherwise it
\* threw) and every invocation awaiting client.ctxReady goes on: a suspended
\* handleSubscribe invokes the authorization callback (line 327) or lands in
\* its catch (line 333); a suspended handleMessage invokes its handler
\* (line 375) or throws into the catch of boot: message.
buildContext(id, ok) ==
  /\ conn[id].ctxReady = "pending"
  /\ pending' = IF ok THEN pending ELSE NotOf(pending, id)
  /\ hpending' = NotOf(hpending, id)
  /\ conn' = Collect([conn EXCEPT ![id].ctxReady = IF ok THEN "ready" ELSE "failed"],
                     _clients, pending', hpending')
  /\ written' = [NoWrites EXCEPT ![id] = IF ok THEN << >> ELSE ErrsFor(Of(pending, id))]
  /\ ev' = Event("ctx", id, "", "", 0, IF ok THEN "resolved" ELSE "rejected", {},
                 IF ok
                 THEN LET a == Of(pending, id)
                          h == Of(hpending, id)
                      IN [q \in {Call("authorize", p.id, p.c, "", 0) : p \in DOMAIN a}
                            |-> a[[id |-> q.id, c |-> q.c]]]
                         (+)
                         [q \in {Call("handler", p.id, p.c, p.e, p.d) : p \in DOMAIN h}
                            |-> h[[id |-> q.id, c |-> q.c, e |-> q.e, d |-> q.d]]]
                 ELSE EmptyBag)
  /\ UNCHANGED <<_channels, _clients, _subscribers, nextId, _pingTimer, _middleware>>

\* removeClient without _clients.delete(clientId)
removeClient_KeepRecord(id) ==
  /\ id < nextId
  /\ IF id \in _clients
     THEN _subscribers' = DelSub(_subscribers, conn[id].channels, id)
     ELSE UNCHANGED _subscribers
  /\ written' = NoWrites
  /\ ev' = Event("close", id, "", "",
                 IF id \in _clients THEN Cardinality(conn[id].channels) ELSE 0,
                 IF id \in _clients THEN "removed" ELSE "absent", {}, EmptyBag)
  /\ UNCHANGED <<_channels, _clients, conn, pending, hpending, nextId, _pingTimer,
                 _middleware>>

\* removeClient, called by boot: close(ws)
removeClient(id) ==
  /\ id < nextId
  /\ IF id \in _clients
     THEN /\ _subscribers' = DelSub(_subscribers, conn[id].channels, id)
          /\ _clients' = _clients \ {id}
     ELSE UNCHANGED <<_subscribers, _clients>>
  /\ conn' = Collect(conn, _clients', pending, hpending)
  /\ written' = NoWrites
  /\ ev' = Event("close", id, "", "",
                 IF id \in _clients THEN Cardinality(conn[id].channels) ELSE 0,
                 IF id \in _clients THEN "removed" ELSE "absent", {}, EmptyBag)
  /\ UNCHANGED <<_channels, pending, hpending, nextId, _pingTimer, _middleware>>

(* ----------------------------- Message Router ------------------------- *)
\* boot: message(ws, raw), were its catch to answer a frame it cannot read
Discard_Reply(id, t) ==
  /\ id < nextId
  /\ (id \in _clients) = (t # "late")
  /\ written' = IF t = "malformed"
                THEN [NoWrites EXCEPT ![id] = <<ErrEnv("", "malformed")>>]
                ELSE NoWrites
  /\ ev' = Did(t, id, "")
  /\ UNCHANGED <<_channels, _clients, conn, _subscribers, pending, hpending,
                 nextId, _pingTimer, _middleware>>

\* boot: message(ws, raw) for a frame that does nothing: "late" for a ws
\* whose client is no longer in _clients (line 161), "pong" (line 173),
\* "malformed" for a frame JSON.parse rejects or of no known type.
Discard(id, t) ==
  /\ id < nextId
  /\ (id \in _clients) = (t # "late")
  /\ written' = NoWrites
  /\ ev' = Did(t, id, "")
  /\ UNCHANGED <<_channels, _clients, conn, _subscribers, pending, hpending,
                 nextId, _pingTimer, _middleware>>

\* handleSubscribe without subs.add(client.clientId)
Subscribed_NoIndex(id, c) ==
  /\ conn' = [conn EXCEPT ![id].channels = @ \cup {c}]
  /\ UNCHANGED _subscribers

\* The assignments of handleSubscribe lines 339-345.
Subscribed(id, c) ==
  /\ conn' = [conn EXCEPT ![id].channels = @ \cup {c}]
  /\ _subscribers' = AddSub(_subscribers, c, id)

\* handleSubscribe without its "already subscribed" branch
AlreadySubscribed_Never(id, c) == FALSE

\* handleSubscribe line 311
AlreadySubscribed(id, c) == c \in conn[id].channels

\* handleSubscribe up to its first suspension (or to its end when it has
\* none).
handleSubscribe(id, c) ==
  /\ id \in _clients
  /\ UNCHANGED <<_channels, _clients, hpending, nextId, _pingTimer, _middleware>>
  /\ IF c = ""
     THEN /\ written' = NoWrites
          /\ ev' = Did("sub", id, c)
          /\ UNCHANGED <<conn, _subscribers, pending>>
     ELSE IF AlreadySubscribed(id, c)
     THEN /\ written' = [NoWrites EXCEPT ![id] = <<OkEnv(c)>>]
          /\ ev' = Did("sub", id, c)
          /\ UNCHANGED <<conn, _subscribers, pending>>
     ELSE IF matchChannel(c) = 0
     THEN /\ written' = [NoWrites EXCEPT ![id] = <<ErrEnv(c, "unknown channel")>>]
          /\ ev' = Did("sub", id, c)
          /\ UNCHANGED <<conn, _subscribers, pending>>
     ELSE IF _channels[matchChannel(c)].authorize = "none"
     THEN /\ Subscribed(id, c)
          /\ written' = [NoWrites EXCEPT ![id] = <<OkEnv(c)>>]
          /\ ev' = Did("sub", id, c)
          /\ UNCHANGED pending
     ELSE IF conn[id].ctxReady = "failed"
     THEN /\ written' = [NoWrites EXCEPT ![id] = <<ErrEnv(c, "authorization failed")>>]
          /\ ev' = Did("sub", id, c)
          /\ UNCHANGED <<conn, _subscribers, pending>>
     ELSE /\ BagCardinality(pending) < MaxPending
          /\ pending' = pending (+) SetToBag({[id |-> id, c |-> c]})
          /\ written' = NoWrites
          /\ ev' = Event("sub", id, c, "", 0, "", {},
                         IF conn[id].ctxReady = "ready"
                         THEN SetToBag({Call("authorize", id, c, "", 0)})
                         ELSE EmptyBag)
          /\ UNCHANGED <<conn, _subscribers>>

\* `allowed` taken as truthy whenever the callback returns
Allowed_AnyReturn(r) == r \in {"true", "false"}

\* handleSubscribe line 328: `allowed` is truthy
Allowed(r) == r = "true"

\* The catch of handleSubscribe never entered
Threw_Never(r) == FALSE

\* handleSubscribe line 332: the awaited callback threw or rejected
Threw(r) == r = "throw"

\* handleSubscribe from the return of the authorization callback (line 327)
\* to its end; r: what the callback did; thr: ws.send of this client throws.
authorized(p, r, thr) ==
  /\ BagIn(p, pending)
  /\ conn[p.id].ctxReady = "ready"
  /\ pending' = pending (-) SetToBag({p})
  /\ UNCHANGED <<_channels, _clients, hpending, nextId, _pingTimer, _middleware>>
  /\ IF Threw(r)
     THEN /\ written' = [NoWrites EXCEPT
                           ![p.id] = <<ErrEnv(p.c, "authorization failed")>>]
          /\ conn' = Collect(conn, _clients, pending', hpending)
          /\ UNCHANGED _subscribers
     ELSE IF ~Allowed(r)
     THEN /\ written' = [NoWrites EXCEPT ![p.id] =
                 IF thr THEN <<ErrEnv(p.c, "unauthorized"),
                               ErrEnv(p.c, "authorization failed")>>
                        ELSE <<ErrEnv(p.c, "unauthorized")>>]
          /\ conn' = Collect(conn, _clients, pending', hpending)
          /\ UNCHANGED _subscribers
     ELSE /\ conn' = Collect([conn EXCEPT ![p.id].channels = @ \cup {p.c}],
                             _clients, pending', hpending)
          /\ _subscribers' = AddSub(_subscribers, p.c, p.id)
          /\ written' = [NoWrites EXCEPT ![p.id] = <<OkEnv(p.c)>>]
  /\ ev' = Event("auth", p.id, p.c, "", 0, r, IF thr THEN {p.id} ELSE {}, EmptyBag)

\* handleUnsubscribe without client.channels.delete(channelName)
handleUnsubscribe_KeepChannel(id, c) ==
  /\ id \in _clients
  /\ IF c = ""
     THEN UNCHANGED <<conn, _subscribers>>
     ELSE /\ UNCHANGED conn
          /\ _subscribers' = DelSub(_subscribers, {c}, id)
  /\ written' = NoWrites
  /\ ev' = Event("unsub", id, c, "", 0,
                 IF c \in conn[id].channels THEN "removed" ELSE "absent", {}, EmptyBag)
  /\ UNCHANGED <<_channels, _clients, pending, hpending, nextId, _pingTimer, _middleware>>

handleUnsubscribe(id, c) ==
  /\ id \in _clients
  /\ IF c = ""
     THEN UNCHANGED <<conn, _subscribers>>
     ELSE /\ conn' = [conn EXCEPT ![id].channels = @ \ {c}]
          /\ _subscribers' = DelSub(_subscribers, {c}, id)
  /\ written' = NoWrites
  /\ ev' = Event("unsub", id, c, "", 0,
                 IF c \in conn[id].channels THEN "removed" ELSE "absent", {}, EmptyBag)
  /\ UNCHANGED <<_channels, _clients, pending, hpending, nextId, _pingTimer, _middleware>>

\* The early returns of handleMessage without the one of line 367
Handles_Unsubscribed(id, c, e) ==
  /\ c # "" /\ e # ""
  /\ matchChannel(c) # 0
  /\ e \in _channels[matchChannel(c)].messages

\* handleMessage lines 366-370: none of the early returns is taken
Handles(id, c, e) ==
  /\ c # "" /\ e # ""
  /\ c \in conn[id].channels
  /\ matchChannel(c) # 0
  /\ e \in _channels[matchChannel(c)].messages

\* handleMessage: to its end when the context has settled, up to
\* `await client.ctxReady` (line 372) when it has not.
handleMessage(id, c, e, d) ==
  /\ id \in _clients
  /\ written' = NoWrites
  /\ UNCHANGED <<_channels, _clients, conn, _subscribers, pending, nextId,
                 _pingTimer, _middleware>>
  /\ IF Handles(id, c, e)
     THEN IF conn[id].ctxReady = "pending"
          THEN /\ BagCardinality(hpending) < MaxHeld
               /\ hpending' = hpending (+) SetToBag({[id |-> id, c |-> c, e |-> e, d |-> d]})
               /\ ev' = Event("msg", id, c, e, d, "", {}, EmptyBag)
          ELSE /\ ev' = Event("msg", id, c, e, d, "", {},
                              IF conn[id].ctxReady = "ready"
                              THEN SetToBag({Call("handler", id, c, e, d)})
                              ELSE EmptyBag)
               /\ UNCHANGED hpending
     ELSE /\ ev' = Event("msg", id, c, e, d, "", {}, EmptyBag)
          /\ UNCHANGED hpending

\* broadcastToChannel without the lookup of lines 401-402: every id of the
\* subscriber set is written to.
broadcastToChannel_NoLookup(channel, event, data, excluded, bad) ==
  LET subs == IF channel \in DOMAIN _subscribers THEN _subscribers[channel] ELSE {}
      targets == {i \in subs : i # excluded}
  IN /\ bad \subseteq targets
     /\ written' = [i \in Ids |->
                      IF i \in targets THEN <<MsgEnv(channel, event, data)>> ELSE << >>]
     /\ ev' = Event("broadcast", excluded, channel, event, data, "", bad, EmptyBag)
     /\ UNCHANGED <<_channels, _clients, conn, _subscribers, pending, hpending,
                    nextId, _pingTimer, _middleware>>

\* broadcastToChannel without the try/catch of lines 402-404: the loop ends at
\* the first ws.send that throws.
broadcastToChannel_Abort(channel, event, data, excluded, bad) ==
  LET subs == IF channel \in DOMAIN _subscribers THEN _subscribers[channel] ELSE {}
      targets == {i \in subs : i # excluded /\ i \in _clients}
  IN /\ bad \subseteq targets
     /\ written' = [i \in Ids |->
                      IF i \in targets /\ \A b \in bad : i <= b
                      THEN <<MsgEnv(channel, event, data)>> ELSE << >>]
     /\ ev' = Event("broadcast", excluded, channel, event, data, "", bad, EmptyBag)
     /\ UNCHANGED <<_channels, _clients, conn, _subscribers, pending, hpending,
                    nextId, _pingTimer, _middleware>>

\* to(channel).except(excluded).send(event, data); excluded is NoId when
\* except was not called; bad: the ids whose ws.send throws.
broadcastToChannel(channel, event, data, excluded, bad) ==
  LET subs == IF channel \in DOMAIN _subscribers THEN _subscribers[channel] ELSE {}
      targets == {i \in subs : i # excluded /\ i \in _clients}
  IN /\ bad \subseteq targets
     /\ written' = [i \in Ids |->
                      IF i \in targets THEN <<MsgEnv(channel, event, data)>> ELSE << >>]
     /\ ev' = Event("broadcast", excluded, channel, event, data, "", bad, EmptyBag)
     /\ UNCHANGED <<_channels, _clients, conn, _subscribers, pending, hpending,
                    nextId, _pingTimer, _middleware>>

\* The keepalive tick without the try/catch of lines 191-193: the loop ends
\* at the first ws.send that throws.
ping_Abort(bad) ==
  /\ _pingTimer
  /\ bad \subseteq _clients
  /\ written' = [i \in Ids |->
                   IF i \in _clients /\ \A b \in bad : i <= b
                   THEN <<PingEnv>> ELSE << >>]
  /\ ev' = Event("ping", NoId, "", "", 0, "", bad, EmptyBag)
  /\ UNCHANGED <<_channels, _clients, conn, _subscribers, pending, hpending,
                 nextId, _pingTimer, _middleware>>

\* One tick of the keepalive interval; bad: the ids whose ws.send throws.
ping(bad) ==
  /\ _pingTimer
  /\ bad \subseteq _clients
  /\ written' = [i \in Ids |-> IF i \in _clients THEN <<PingEnv>> ELSE << >>]
  /\ ev' = Event("ping", NoId, "", "", 0, "", bad, EmptyBag)
  /\ UNCHANGED <<_channels, _clients, conn, _subscribers, pending, hpending,
                 nextId, _pingTimer, _middleware>>

\* reset without _subscribers.clear()
reset_KeepSubscribers ==
  /\ _pingTimer' = FALSE
  /\ _middleware' = << >>
  /\ _channels' = << >>
  /\ _clients' = {}
  /\ UNCHANGED _subscribers
  /\ conn' = Collect(conn, {}, pending, hpending)
  /\ written' = NoWrites
  /\ ev' = Did("reset", NoId, "")
  /\ UNCHANGED <<pending, hpending, nextId>>

\* BroadcastManager.reset()
reset ==
  /\ _pingTimer' = FALSE
  /\ _middleware' = << >>
  /\ _channels' = << >>
  /\ _clients' = {}
  /\ _subscribers' = << >>
  /\ conn' = Collect(conn, {}, pending, hpending)
  /\ written' = NoWrites
  /\ ev' = Did("reset", NoId, "")
  /\ UNCHANGED <<pending, hpending, nextId>>

(* ------------------------- Client State Machine ----------------------- *)
\* Number.POSITIVE_INFINITY: larger than every attempt count, and x + 1 = x.
Infinity == 1000000

\* Channels the user subscribes to.
ClientChan == {"news", "chat/1"}

\* The state after new Broadcast(): connect() has made the first WebSocket.
ClientInit ==
  /\ sock = "connecting"
  /\ ws = "set"
  /\ _connected = FALSE
  /\ _clientId = NoId
  /\ maxReconnectAttempts = Infinity
  /\ reconnectAttempt = 0
  /\ reconnectTimer = FALSE
  /\ subscriptions = << >>
  /\ queue = << >>
  /\ pc = "run"
  /\ delay = 0
  /\ listeners = [c \in ClientChan |-> {}]
  /\ denied = {}
  /\ link = TRUE
  /\ srv = NoId
  /\ gone = {}
  /\ c2s = << >>
  /\ s2c = << >>
  /\ nsend = 0
  /\ closeCalled = FALSE
  /\ wsent = << >>

Range(q) == {q[i] : i \in 1..Len(q)}
Without(q, x) == SelectSeq(q, LAMBDA y : y # x)

\* The subs of the welcome handler, last subscription first
SubEnvs_Reversed(chs) == [i \in 1..Len(chs) |-> SubEnv(chs[Len(chs) + 1 - i])]

\* handleMessage lines 252-254: one sub per key of subscriptions, in the
\* order of insertion
SubEnvs(chs) == [i \in 1..Len(chs) |-> SubEnv(chs[i])]

\* The task passes frames to WebSocket.send of an OPEN socket: they travel
\* unless the transport is already broken.
Transmit(frames) ==
  /\ wsent' = frames
  /\ c2s' = IF link THEN c2s \o frames ELSE c2s

\* Broadcast.rawSend
rawSend(frame) ==
  IF ws = "set" /\ sock = "open" THEN Transmit(<<frame>>) ELSE Transmit(<< >>)

\* Broadcast.send without its else branch
send_Drop(frame) ==
  IF _connected /\ ws = "set" /\ sock = "open"
  THEN /\ Len(c2s) < MaxWire
       /\ Transmit(<<frame>>)
       /\ UNCHANGED queue
  ELSE /\ UNCHANGED queue
       /\ Transmit(<< >>)

\* Broadcast.send
send(frame) ==
  IF _connected /\ ws = "set" /\ sock = "open"
  THEN /\ Len(c2s) < MaxWire
       /\ Transmit(<<frame>>)
       /\ UNCHANGED queue
  ELSE /\ Len(queue) < MaxQueue
       /\ queue' = Append(queue, frame)
       /\ Transmit(<< >>)

\* User code runs as a task of its own, and calls nothing after close().
UserTurn == ev = Idle /\ ~closeCalled

\* Broadcast.subscribe without the look-up of lines 158-159
subscribe_Again(channel) ==
  /\ UserTurn
  /\ subscriptions' = Append(Without(subscriptions, channel), channel)
  /\ IF _connected
     THEN Len(c2s) < MaxWire /\ rawSend(SubEnv(channel))
     ELSE Transmit(<< >>)
  /\ listeners' = [listeners EXCEPT ![channel] = {}]
  /\ denied' = denied \ {channel}
  /\ ev' = Event("subscribe", NoId, channel, "", 0, "created", {}, EmptyBag)
  /\ written' = NoWrites
  /\ UNCHANGED <<sock, ws, _connected, _clientId, maxReconnectAttempts,
                 reconnectAttempt, reconnectTimer, queue, pc, delay, link, srv, gone,
                 s2c, nsend, closeCalled>>
  /\ UNCHANGED hubVars

\* Broadcast.subscribe(channel); the event keeps whether the Subscription
\* returned is the existing one of the channel or one just created.
subscribe(channel) ==
  /\ UserTurn
  /\ IF channel \in Range(subscriptions)
     THEN UNCHANGED <<subscriptions, listeners, denied>> /\ Transmit(<< >>)
     ELSE /\ subscriptions' = Append(subscriptions, channel)
          /\ listeners' = [listeners EXCEPT ![channel] = {}]
          /\ denied' = denied \ {channel}
          /\ IF _connected
             THEN Len(c2s) < MaxWire /\ rawSend(SubEnv(channel))
             ELSE Transmit(<< >>)
  /\ ev' = Event("subscribe", NoId, channel, "", 0,
                 IF channel \in Range(subscriptions) THEN "existing" ELSE "created",
                 {}, EmptyBag)
  /\ written' = NoWrites
  /\ UNCHANGED <<sock, ws, _connected, _clientId, maxReconnectAttempts,
                 reconnectAttempt, reconnectTimer, queue, pc, delay, link, srv, gone,
                 s2c, nsend, closeCalled>>
  /\ UNCHANGED hubVars

\* Subscription.leave() on the subscription bc.subscribe(channel) returns
leave(channel) ==
  /\ UserTurn
  /\ channel \in Range(subscriptions)
  /\ send(UnsubEnv(channel))
  /\ listeners' = [listeners EXCEPT ![channel] = {}]
  /\ subscriptions' = Without(subscriptions, channel)
  /\ denied' = denied \ {channel}
  /\ ev' = Did("leave", NoId, channel)
  /\ written' = NoWrites
  /\ UNCHANGED <<sock, ws, _connected, _clientId, maxReconnectAttempts,
                 reconnectAttempt, reconnectTimer, pc, delay, link, srv, gone, s2c,
                 nsend, closeCalled>>
  /\ UNCHANGED hubVars

\* Subscription.on(event, callback) on the subscription bc.subscribe(channel)
\* returns
on(channel, event) ==
  /\ UserTurn
  /\ channel \in Range(subscriptions)
  /\ listeners' = [listeners EXCEPT ![channel] = @ \cup {event}]
  /\ ev' = Event("on", NoId, channel, event, 0, "", {}, EmptyBag)
  /\ written' = NoWrites
  /\ Transmit(<< >>)
  /\ UNCHANGED <<sock, ws, _connected, _clientId, maxReconnectAttempts,
                 reconnectAttempt, reconnectTimer, subscriptions, queue, pc, delay,
                 denied, link, srv, gone, s2c, nsend, closeCalled>>
  /\ UNCHANGED hubVars

\* Subscription.send(event, data) on the subscription of channel; the data
\* is the number of the call.
Subscription_send(channel, event) ==
  /\ UserTurn
  /\ channel \in Range(subscriptions)
  /\ nsend < MaxSend
  /\ nsend' = nsend + 1
  /\ send(MsgEnv(channel, event, nsend'))
  /\ ev' = Event("send", NoId, channel, event, nsend', "", {}, EmptyBag)
  /\ written' = NoWrites
  /\ UNCHANGED <<sock, ws, _connected, _clientId, maxReconnectAttempts,
                 reconnectAttempt, reconnectTimer, subscriptions, pc, delay, listeners, denied, link, srv,
                 gone, s2c, closeCalled>>
  /\ UNCHANGED hubVars

\* The transport of sock stops carrying frames: what is in flight is lost,
\* and the hub will run close(ws) if it had opened this transport.
Broken ==
  /\ link' = FALSE
  /\ c2s' = << >>
  /\ s2c' = << >>
  /\ gone' = IF link /\ srv # NoId THEN gone \cup {srv} ELSE gone

\* Broadcast.close(), called from a task of its own or from a listener of
\* 'reconnecting' (the calls of subscribe, leave and send a listener makes
\* commute with the rest of scheduleReconnect and are taken as tasks).
close ==
  /\ ev = Idle \/ pc = "emit"
  /\ ~closeCalled
  /\ closeCalled' = TRUE
  /\ reconnectAttempt' = Infinity
  /\ reconnectTimer' = FALSE
  /\ IF ws = "set" /\ sock \in {"connecting", "open"}
     THEN sock' = "closing" /\ Broken
     ELSE UNCHANGED <<sock, link, c2s, s2c, gone>>
  /\ ws' = "null"
  /\ ev' = Did("bc.close", NoId, "")
  /\ written' = NoWrites
  /\ wsent' = << >>
  /\ UNCHANGED <<_connected, _clientId, maxReconnectAttempts, subscriptions,
                 queue, pc, delay, listeners, denied, srv, nsend>>
  /\ UNCHANGED hubVars

\* The timer callback of scheduleReconnect, were the timer an interval: it
\* stays pending after it has fired.
connect_Interval ==
  /\ ev = Idle
  /\ reconnectTimer
  /\ reconnectTimer' = TRUE
  /\ sock' = "connecting"
  /\ ws' = "set"
  /\ link' = TRUE
  /\ srv' = NoId
  /\ c2s' = << >>
  /\ s2c' = << >>
  /\ ev' = Did("connect", NoId, "")
  /\ written' = NoWrites
  /\ wsent' = << >>
  /\ UNCHANGED <<_connected, _clientId, maxReconnectAttempts, reconnectAttempt,
                 subscriptions, queue, pc, delay, listeners, denied, gone, nsend, closeCalled>>
  /\ UNCHANGED hubVars

\* The reconnect timeout fires: Broadcast.connect()
connect ==
  /\ ev = Idle
  /\ reconnectTimer
  /\ reconnectTimer' = FALSE
  /\ sock' = "connecting"
  /\ ws' = "set"
  /\ link' = TRUE
  /\ srv' = NoId
  /\ c2s' = << >>
  /\ s2c' = << >>
  /\ ev' = Did("connect", NoId, "")
  /\ written' = NoWrites
  /\ wsent' = << >>
  /\ UNCHANGED <<_connected, _clientId, maxReconnectAttempts, reconnectAttempt,
                 subscriptions, queue, pc, delay, listeners, denied, gone, nsend, closeCalled>>
  /\ UNCHANGED hubVars

\* ws.onopen
onopen ==
  /\ ev = Idle
  /\ sock = "connecting" /\ link /\ srv # NoId
  /\ sock' = "open"
  /\ _connected' = TRUE
  /\ reconnectAttempt' = 0
  /\ ev' = Did("onopen", NoId, "")
  /\ written' = NoWrites
  /\ wsent' = << >>
  /\ UNCHANGED <<ws, _clientId, maxReconnectAttempts, reconnectTimer,
                 subscriptions, queue, pc, delay, listeners, denied, link, srv, gone, c2s, s2c, nsend,
                 closeCalled>>
  /\ UNCHANGED hubVars

\* Subscription._dispatch handing the event to the listeners of every event
_dispatch_Any(channel, event, data) ==
  IF listeners[channel] # {}
  THEN SetToBag({Call("listener", NoId, channel, event, data)})
  ELSE EmptyBag

\* Subscription._dispatch(event, data) of the Subscription of channel: the
\* listener calls it makes.
_dispatch(channel, event, data) ==
  IF event \in listeners[channel]
  THEN SetToBag({Call("listener", NoId, channel, event, data)})
  ELSE EmptyBag

\* The application callbacks handleMessage(msg) invokes: the listeners of
\* 'subscribed' and 'error' (with the channel, and the reason in e) and the
\* listeners of a Subscription.
emit(msg) ==
  IF msg.t = "ok" THEN SetToBag({Call("subscribed", NoId, msg.c, "", 0)})
  ELSE IF msg.t = "err" THEN SetToBag({Call("error", NoId, msg.c, msg.r, 0)})
  ELSE IF msg.t = "msg" /\ msg.c \in Range(subscriptions)
       THEN _dispatch(msg.c, msg.e, msg.d)
  ELSE EmptyBag

\* ws.onmessage -> Broadcast.handleMessage(msg)
onmessage ==
  /\ ev = Idle
  /\ sock = "open" /\ s2c # << >>
  /\ s2c' = Tail(s2c)
  /\ LET msg == Head(s2c)
     IN /\ IF msg.t = "welcome"
           THEN /\ _clientId' = msg.id
                /\ Transmit(SubEnvs(subscriptions) \o queue)
                /\ queue' = << >>
           ELSE IF msg.t = "ping"
           THEN /\ rawSend(PongEnv)
                /\ UNCHANGED <<_clientId, queue>>
           ELSE /\ Transmit(<< >>)
                /\ UNCHANGED <<_clientId, queue>>
        /\ denied' = IF msg.t = "err" /\ msg.r = "unauthorized"
                      THEN denied \cup {msg.c} ELSE denied
        /\ ev' = Event("onmessage", msg.id, msg.c, msg.e, msg.d, msg.t, {}, emit(msg))
  /\ written' = NoWrites
  /\ UNCHANGED <<sock, ws, _connected, maxReconnectAttempts, reconnectAttempt,
                 reconnectTimer, subscriptions, pc, delay, listeners, link, srv, gone,
                 nsend, closeCalled>>
  /\ UNCHANGED hubVars

\* The network breaks the transport of sock; a transport the hub has not
\* opened yet fails at most n times in a row.
netDropUpTo(n) ==
  /\ ev = Idle
  /\ link /\ sock \in {"connecting", "open"}
  /\ srv = NoId => reconnectAttempt < n
  /\ Broken
  /\ ev' = Did("drop", srv, "")
  /\ written' = NoWrites
  /\ wsent' = << >>
  /\ UNCHANGED <<sock, ws, _connected, _clientId, maxReconnectAttempts,
                 reconnectAttempt, reconnectTimer, subscriptions, queue, pc, delay, listeners, denied, srv,
                 nsend, closeCalled>>
  /\ UNCHANGED hubVars

netDrop == netDropUpTo(MaxAttempts)

\* Math.pow(2, n)
RECURSIVE Pow2(_)
Pow2(n) == IF n <= 0 THEN 1 ELSE 2 * Pow2(n - 1)

MinOf(a, b) == IF a <= b THEN a ELSE b

\* The delay of scheduleReconnect without Math.min
Delay_Uncapped(attempt) == 1000 * Pow2(attempt - 1)

\* scheduleReconnect line 299; Math.pow(2, Infinity) is Infinity, of which
\* Math.min takes 30000.
Delay(attempt) ==
  IF attempt = Infinity THEN 30000
  ELSE MinOf(1000 * Pow2(attempt - 1), 30000)

\* ws.onclose without the test of wasConnected in line 238
onclose_Always ==
  /\ ev = Idle
  /\ sock \in {"connecting", "open", "closing"} /\ ~link
  /\ sock' = "closed"
  /\ _connected' = FALSE
  /\ IF reconnectAttempt >= maxReconnectAttempts
     THEN UNCHANGED <<reconnectAttempt, pc, delay>>
     ELSE /\ reconnectAttempt' =
               IF reconnectAttempt = Infinity THEN Infinity ELSE reconnectAttempt + 1
          /\ delay' = Delay(reconnectAttempt')
          /\ pc' = "emit"
  /\ ev' = Event("onclose", NoId, "", "", IF pc' = "emit" THEN reconnectAttempt' ELSE 0,
                 "disconnected", {}, EmptyBag)
  /\ written' = NoWrites
  /\ wsent' = << >>
  /\ UNCHANGED <<ws, _clientId, maxReconnectAttempts, reconnectTimer,
                 subscriptions, queue, listeners, denied, link, srv, gone, c2s, s2c,
                 nsend, closeCalled>>
  /\ UNCHANGED hubVars

\* ws.onclose with `>` for `>=` in line 296 of scheduleReconnect
onclose_OneMore ==
  /\ ev = Idle
  /\ sock \in {"connecting", "open", "closing"} /\ ~link
  /\ sock' = "closed"
  /\ _connected' = FALSE
  /\ IF reconnectAttempt > maxReconnectAttempts \/ reconnectAttempt = Infinity
     THEN UNCHANGED <<reconnectAttempt, pc, delay>>
     ELSE /\ reconnectAttempt' = reconnectAttempt + 1
          /\ delay' = Delay(reconnectAttempt')
          /\ pc' = "emit"
  /\ ev' = Event("onclose", NoId, "", "", IF pc' = "emit" THEN reconnectAttempt' ELSE 0,
                 IF _connected THEN "disconnected" ELSE "", {}, EmptyBag)
  /\ written' = NoWrites
  /\ wsent' = << >>
  /\ UNCHANGED <<ws, _clientId, maxReconnectAttempts, reconnectTimer,
                 subscriptions, queue, listeners, denied, link, srv, gone, c2s, s2c,
                 nsend, closeCalled>>
  /\ UNCHANGED hubVars

\* ws.onclose up to emit('reconnecting') in scheduleReconnect; the task ends
\* there when scheduleReconnect returns at line 296.
onclose ==
  /\ ev = Idle
  /\ sock \in {"connecting", "open", "closing"} /\ ~link
  /\ sock' = "closed"
  /\ _connected' = FALSE
  /\ IF reconnectAttempt >= maxReconnectAttempts
     THEN UNCHANGED <<reconnectAttempt, pc, delay>>
     ELSE /\ reconnectAttempt' =
               IF reconnectAttempt = Infinity THEN Infinity ELSE reconnectAttempt + 1
          /\ delay' = Delay(reconnectAttempt')
          /\ pc' = "emit"
  /\ ev' = Event("onclose", NoId, "", "", IF pc' = "emit" THEN reconnectAttempt' ELSE 0,
                 IF _connected THEN "disconnected" ELSE "", {}, EmptyBag)
  /\ written' = NoWrites
  /\ wsent' = << >>
  /\ UNCHANGED <<ws, _clientId, maxReconnectAttempts, reconnectTimer,
                 subscriptions, queue, listeners, denied, link, srv, gone, c2s, s2c,
                 nsend, closeCalled>>
  /\ UNCHANGED hubVars

\* scheduleReconnect after emit('reconnecting'): setTimeout (line 301)
scheduleReconnect ==
  /\ pc = "emit"
  /\ pc' = "run"
  /\ delay' = 0
  /\ reconnectTimer' = TRUE
  /\ ev' = Event("setTimeout", NoId, "", "", delay, "", {}, EmptyBag)
  /\ written' = NoWrites
  /\ wsent' = << >>
  /\ UNCHANGED <<sock, ws, _connected, _clientId, maxReconnectAttempts,
                 reconnectAttempt, subscriptions, queue, listeners, denied, link, srv,
                 gone, c2s, s2c, nsend, closeCalled>>
  /\ UNCHANGED hubVars

(* ------------------- the hub, driven by any transports ---------------- *)
\* Frames and calls the runs of Spec draw from.
MsgFrames == {<<"chat/1", "send">>, <<"chat/1", "typing">>, <<"chat/1", "">>,
              <<"news", "send">>, <<"", "send">>, <<"nope", "send">>}
Fails == {{}} \cup {{i} : i \in Ids}

Init == HubInit /\ ClientInit

\* A task of the hub leaves the client alone.
HubOnly == UNCHANGED <<clientVars, wsent>>
NoClient == HubOnly /\ UNCHANGED since

Open == ev = Idle /\ HubOpen /\ NoClient
Context == ev = Idle /\ NoClient
             /\ \E id \in Ids, ok \in BOOLEAN : buildContext(id, ok)
Close == ev = Idle /\ NoClient /\ \E id \in Ids : removeClient(id)
Ignored == ev = Idle /\ NoClient
             /\ \E id \in Ids, t \in {"late", "pong", "malformed"} : Discard(id, t)
Sub == ev = Idle /\ NoClient
         /\ \E id \in Ids, c \in Chan : handleSubscribe(id, c)
Auth == ev = Idle /\ NoClient
          /\ \E p \in BagToSet(pending), r \in AuthResults, thr \in BOOLEAN :
               authorized(p, r, thr)
\* boot: message, were the transport to hold further frames back while a
\* handleSubscribe is suspended
Unsub_Held == pending = EmptyBag /\ ev = Idle /\ NoClient
                /\ \E id \in Ids, c \in Chan : handleUnsubscribe(id, c)

Unsub == ev = Idle /\ NoClient
           /\ \E id \in Ids, c \in Chan : handleUnsubscribe(id, c)
Msg == ev = Idle /\ NoClient
         /\ \E id \in Ids, f \in MsgFrames : handleMessage(id, f[1], f[2], 1)
Broadcast == ev = Idle /\ NoClient
               /\ \E c \in Chan \ {""}, e \in Events \ {""}, x \in Ids \cup {NoId},
                     bad \in Fails : broadcastToChannel(c, e, 1, x, bad)
Ping == ev = Idle /\ NoClient /\ \E bad \in Fails : ping(bad)
Reset == ev = Idle /\ NoClient /\ reset
Returned == Return /\ UNCHANGED clientVars

Next ==
  \/ Open \/ Context \/ Close \/ Ignored \/ Sub \/ Auth \/ Unsub \/ Msg
  \/ Broadcast \/ Ping \/ Reset \/ Returned

Spec == Init /\ [][Next]_vars

(* ------------- the hub and the frames that overtake a subscribe ------- *)
\* handleMessage lines 369-370: the name resolves to a definition that has
\* a handler for the event
Routed(c, e) ==
  /\ c # "" /\ e # ""
  /\ matchChannel(c) # 0
  /\ e \in _channels[matchChannel(c)].messages

\* A handleSubscribe of id for c is suspended in bag b.
Waiting(b, id, c) == BagIn([id |-> id, c |-> c], b)

Mark(id, c, t) == [id |-> id, c |-> c, t |-> t]

\* The marks whose subscribe is still suspended after the step.
Kept(marks) == {m \in marks : Waiting(pending', m.id, m.c)}

\* The requests of the runs: the channel with an authorization callback and
\* the one without, the event with a handler and one without.
RaceChan == {"news", "chat/1"}
RaceFrames == {<<"chat/1", "send">>, <<"chat/1", "typing">>, <<"news", "send">>}

RaceSub ==
  /\ ev = Idle /\ HubOnly
  /\ \E id \in Ids, c \in RaceChan :
       /\ handleSubscribe(id, c)
       /\ since' = Kept(since \ {Mark(id, c, "unsub")})

RaceUnsub ==
  /\ ev = Idle /\ HubOnly
  /\ \E id \in Ids, c \in RaceChan :
       /\ handleUnsubscribe(id, c)
       /\ since' = Kept(since \cup {Mark(id, c, "unsub")})

RaceMsg ==
  /\ ev = Idle /\ HubOnly
  /\ \E id \in Ids, f \in RaceFrames :
       /\ handleMessage(id, f[1], f[2], 1)
       /\ since' = IF Routed(f[1], f[2]) /\ ~Handles(id, f[1], f[2])
                   THEN Kept(since \cup {Mark(id, f[1], "msg")})
                   ELSE Kept(since)

RaceAuth ==
  /\ ev = Idle /\ HubOnly
  /\ \E p \in BagToSet(pending), r \in AuthResults :
       authorized(p, r, FALSE)
  /\ since' = Kept(since)

RaceContext ==
  /\ ev = Idle /\ HubOnly
  /\ \E id \in Ids, ok \in BOOLEAN : buildContext(id, ok)
  /\ since' = Kept(since)

\* At most MaxRace connections are opened.
RaceOpen == Open /\ nextId <= MaxRace

RaceNext ==
  \/ RaceOpen \/ Close \/ RaceContext \/ RaceSub \/ RaceUnsub \/ RaceMsg
  \/ RaceAuth \/ Returned

RaceSpec == Init /\ [][RaceNext]_vars

(* ---------------- the hub booted with and without keepalive ---------- *)
\* The state after boot(router, { middleware, pingInterval }): the interval
\* timer exists when pingInterval > 0 (the default) and not when it is 0.
BootInit ==
  /\ _channels = Registered
  /\ _clients = {}
  /\ conn = [i \in Ids |-> NoConn]
  /\ _subscribers = << >>
  /\ pending = EmptyBag
  /\ hpending = EmptyBag
  /\ nextId = 1
  /\ _pingTimer \in BOOLEAN
  /\ _middleware \in {<< >>, <<"session">>}
  /\ written = NoWrites
  /\ ev = Idle
  /\ since = {}

KeepaliveNext ==
  \/ Open \/ Context \/ Close \/ Sub \/ Auth \/ Ping \/ Reset \/ Returned

KeepaliveInit == BootInit /\ ClientInit
KeepaliveSpec == KeepaliveInit /\ [][KeepaliveNext]_vars

(* ------------------ one client and the hub, over the wire ------------- *)
\* What the hub wrote to the client's transport travels to the client.
Deliver == s2c' = IF link /\ srv # NoId THEN s2c \o written'[srv] ELSE s2c

clientRest == <<sock, ws, _connected, _clientId, maxReconnectAttempts,
                reconnectAttempt, reconnectTimer, subscriptions, queue, pc, delay, listeners, denied, link,
                gone, nsend, closeCalled, wsent, since>>

\* The hub accepts the transport the client is opening.
ServerOpen ==
  /\ ev = Idle
  /\ sock = "connecting" /\ link /\ srv = NoId
  /\ nextId <= MaxReconnects + 1
  /\ HubOpen
  /\ srv' = nextId
  /\ s2c' = written'[nextId]
  /\ UNCHANGED <<c2s, clientRest>>

\* The hub takes the next frame of the client's transport.
ServerMessage ==
  /\ ev = Idle
  /\ link /\ srv # NoId /\ c2s # << >>
  /\ Len(s2c) < MaxWire
  /\ LET f == Head(c2s)
     IN IF f.t = "sub" THEN handleSubscribe(srv, f.c)
        ELSE IF f.t = "unsub" THEN handleUnsubscribe(srv, f.c)
        ELSE IF f.t = "msg" THEN handleMessage(srv, f.c, f.e, f.d)
        ELSE Discard(srv, f.t)
  /\ c2s' = Tail(c2s)
  /\ Deliver
  /\ UNCHANGED <<srv, clientRest>>

ServerAuth ==
  /\ ev = Idle
  /\ \E p \in BagToSet(pending), r \in AuthResults : authorized(p, r, FALSE)
  /\ Deliver
  /\ UNCHANGED <<srv, c2s, clientRest>>

\* The hub runs close(ws) for a broken transport.
ServerClose ==
  /\ ev = Idle
  /\ \E id \in gone : removeClient(id) /\ gone' = gone \ {id}
  /\ UNCHANGED <<sock, ws, _connected, _clientId, maxReconnectAttempts,
                 reconnectAttempt, reconnectTimer, subscriptions, queue, pc, delay, listeners, denied, link,
                 srv, c2s, s2c, nsend, closeCalled, wsent, since>>

UserSubscribe == \E c \in ClientChan : subscribe(c)
UserLeave == \E c \in ClientChan : leave(c)
\* The user sends on the channel that has a message handler.
UserSend == Subscription_send("chat/1", "send")

ClientNext ==
  \/ UserSubscribe \/ UserLeave \/ UserSend \/ close
  \/ connect \/ onopen \/ onmessage \/ netDrop \/ onclose \/ scheduleReconnect
  \/ ServerOpen \/ ServerMessage \/ ServerAuth \/ ServerClose
  \/ Returned

\* The hub of ClientSpec is booted without middleware.
ClientSpecInit == Init /\ _middleware = << >>
ClientSpec == ClientSpecInit /\ [][ClientNext]_vars

(* ------------- the client in front of a hub that is hard to reach ------ *)
\* Connection attempts fail up to MaxBackoff times in a row.
Unreachable == netDropUpTo(MaxBackoff)

BackoffNext ==
  \/ Unreachable \/ onclose \/ scheduleReconnect \/ connect \/ close
  \/ ServerOpen \/ onopen \/ onmessage \/ UserSubscribe \/ Returned

BackoffSpec == ClientSpecInit /\ [][BackoffNext]_vars

(* ------------- the client and the envelopes that reach it ------------ *)
\* Event names the application listens for on a Subscription.
Heard == {"send", "typing"}

\* Envelopes a server can put on the client's transport: the answers to sub,
\* channel events, the heartbeat, and a tag handleMessage has no case for.
Inbox ==
  {OkEnv(c) : c \in ClientChan} \cup {ErrEnv(c, "unauthorized") : c \in ClientChan}
  \cup {MsgEnv(c, e, 1) : c \in ClientChan, e \in Heard}
  \cup {PingEnv, Env("bye", "", "", "", 0, NoId)}

\* An envelope of the server arrives on the open transport of the client.
Arrive ==
  /\ ev = Idle
  /\ sock = "open" /\ link /\ srv # NoId
  /\ Len(s2c) < MaxWire /\ Len(c2s) < MaxQueue
  /\ \E msg \in Inbox :
       /\ s2c' = Append(s2c, msg)
       /\ ev' = Event("arrive", NoId, msg.c, msg.e, msg.d, msg.t, {}, EmptyBag)
  /\ written' = NoWrites
  /\ wsent' = << >>
  /\ UNCHANGED <<sock, ws, _connected, _clientId, maxReconnectAttempts,
                 reconnectAttempt, reconnectTimer, subscriptions, queue, pc,
                 delay, listeners, denied, link, srv, gone, c2s, nsend,
                 closeCalled>>
  /\ UNCHANGED hubVars

UserOn == \E c \in ClientChan, e \in Heard : on(c, e)

InboxNext ==
  \/ UserSubscribe \/ UserLeave \/ UserOn \/ close
  \/ ServerOpen \/ onopen \/ Arrive \/ onmessage
  \/ ServerMessage \/ ServerAuth
  \/ Returned

InboxSpec == ClientSpecInit /\ [][InboxNext]_vars

(* ------------- the client made with a limit of reconnections ---------- *)
\* new Broadcast({ maxReconnectAttempts }) for the limits 0..MaxLimit and for
\* the default.
Limits == 0..MaxLimit \cup {Infinity}

AttemptsInit ==
  /\ HubInit /\ _middleware = << >>
  /\ sock = "connecting"
  /\ ws = "set"
  /\ _connected = FALSE
  /\ _clientId = NoId
  /\ maxReconnectAttempts \in Limits
  /\ reconnectAttempt = 0
  /\ reconnectTimer = FALSE
  /\ subscriptions = << >>
  /\ queue = << >>
  /\ pc = "run"
  /\ delay = 0
  /\ listeners = [c \in ClientChan |-> {}]
  /\ denied = {}
  /\ link = TRUE
  /\ srv = NoId
  /\ gone = {}
  /\ c2s = << >>
  /\ s2c = << >>
  /\ nsend = 0
  /\ closeCalled = FALSE
  /\ wsent = << >>

AttemptsSpec == AttemptsInit /\ [][BackoffNext]_vars

(* ------------------- the registry, filled at startup ------------------ *)
\* The patterns registered and the names resolved in the runs of
\* RegistrySpec; "chat/:id" and "chat/*rest" are broader than "chat/1".
Patterns == {"news", "chat/:id", "chat/1", "chat/*rest"}
Names == {"news", "chat/1", "chat/1/2", "nope"}

\* The static fields of BroadcastManager before any channel() or boot().
RegistryInit ==
  /\ _channels = << >>
  /\ _clients = {}
  /\ conn = [i \in Ids |-> NoConn]
  /\ _subscribers = << >>
  /\ pending = EmptyBag
  /\ hpending = EmptyBag
  /\ nextId = 1
  /\ _pingTimer = FALSE
  /\ _middleware = << >>
  /\ written = NoWrites
  /\ ev = Idle
  /\ since = {}
  /\ ClientInit

\* BroadcastManager.channel(pattern, config)
channel(pattern, authorize, messages) ==
  /\ Len(_channels) < MaxDefs
  /\ _channels' = Append(_channels, Def(pattern, authorize, messages))
  /\ written' = NoWrites
  /\ ev' = Did("channel", NoId, pattern)
  /\ UNCHANGED <<_clients, conn, _subscribers, pending, hpending, nextId, _pingTimer,
                 _middleware>>

\* A call of matchChannel(name); the event keeps the position and the
\* pattern of the definition returned (0 and "" for null).
resolve(name) ==
  /\ written' = NoWrites
  /\ ev' = Event("resolve", NoId, name, "", matchChannel(name),
                 IF matchChannel(name) = 0 THEN ""
                 ELSE _channels[matchChannel(name)].pattern, {}, EmptyBag)
  /\ UNCHANGED hubVars

Channel == ev = Idle /\ NoClient
             /\ \E p \in Patterns, a \in {"none", "cb"} : channel(p, a, {})
Resolve == ev = Idle /\ NoClient /\ \E n \in Names : resolve(n)

RegistryNext == Channel \/ Resolve \/ Returned
RegistrySpec == RegistryInit /\ [][RegistryNext]_vars

(* ---------------------- the pattern matcher alone --------------------- *)
\* Patterns are made of up to MaxSegs segments joined by "/": a literal, a
\* ":name" or a "*name". A pattern has at most one "*name", not as its first
\* segment (parsePattern looks for "/*name" once), and no name twice. Names
\* are all the texts of up to MaxName characters, "/" among them.
Segments == {<<"a">>, <<"b">>, <<":", "x">>, <<":", "y">>, <<"*", "z">>}
NameChars == {"a", "b", "/"}

RECURSIVE Join(_)
Join(segs) ==
  IF Len(segs) = 1 THEN segs[1] ELSE segs[1] \o <<"/">> \o Join(Tail(segs))

WellFormed(segs) ==
  /\ segs[1][1] # "*"
  /\ Cardinality({i \in 1..Len(segs) : segs[i][1] = "*"}) <= 1
  /\ \A i, k \in 1..Len(segs) :
       (i # k /\ segs[i][1] \in {":", "*"} /\ segs[k][1] \in {":", "*"})
         => Tail(segs[i]) # Tail(segs[k])

\* The patterns and names of the documentation: chats/:id, files/*path and
\* files/:user/*path; chats/42, chats/42/messages, chats, files/a/b/c and
\* files/bob/a/b.
DocPatterns ==
  {<<"c", "h", "a", "t", "s", "/", ":", "i", "d">>,
   <<"f", "i", "l", "e", "s", "/", "*", "p", "a", "t", "h">>,
   <<"f", "i", "l", "e", "s", "/", ":", "u", "s", "e", "r", "/", "*", "p", "a", "t", "h">>}
DocNames ==
  {<<"c", "h", "a", "t", "s", "/", "4", "2">>,
   <<"c", "h", "a", "t", "s", "/", "4", "2", "/", "m", "e", "s", "s", "a", "g", "e", "s">>,
   <<"c", "h", "a", "t", "s">>,
   <<"f", "i", "l", "e", "s", "/", "a", "/", "b", "/", "c">>,
   <<"f", "i", "l", "e", "s", "/", "b", "o", "b", "/", "a", "/", "b">>}

PatternSet ==
  DocPatterns \cup
  {Join(segs) : segs \in {q \in UNION {[1..n -> Segments] : n \in 1..MaxSegs} :
                            WellFormed(q)}}
NameSet == DocNames \cup UNION {[1..n -> NameChars] : n \in 1..MaxName}

\* channel(pattern) followed by matchChannel(name) on that definition: the
\* event keeps whether the regex matched, the groups of the match and the
\* params handed to the callbacks.
Match(pattern, name) ==
  LET toks == Tokens(pattern, 1, FALSE)
      m == Exec(toks, name, 1, 1)
      groups == IF m THEN Groups(toks, name, 1, 1) ELSE << >>
  IN /\ ev' = [op |-> "exec", pattern |-> pattern, name |-> name, matched |-> m,
                 groups |-> groups,
                 params |-> IF m THEN extractParams(paramNames(pattern), groups)
                            ELSE << >>]
     /\ written' = NoWrites
     /\ UNCHANGED hubVars

Matching == ev = Idle /\ NoClient
              /\ \E p \in PatternSet, n \in NameSet : Match(p, n)

PatternNext == Matching \/ Returned
PatternSpec == RegistryInit /\ [][PatternNext]_vars

(* ------------- patterns and names with a "." in them ------------------- *)
DotSegments == {<<"a">>, <<"a", ".", "b">>, <<":", "x">>, <<"*", "z">>}
DotChars == {"a", "b", ".", "/"}

DotPatterns ==
  {Join(segs) : segs \in {q \in UNION {[1..n -> DotSegments] : n \in 1..MaxSegs} :
                            WellFormed(q)}}
DotNames == UNION {[1..n -> DotChars] : n \in 1..MaxName}

DotMatching == ev = Idle /\ NoClient
                 /\ \E p \in DotPatterns, n \in DotNames : Match(p, n)

LiteralNext == DotMatching \/ Returned
LiteralSpec == RegistryInit /\ [][LiteralNext]_vars

(* ============================ the claims ============================== *)
SubsOf(subs, c) == IF c \in DOMAIN subs THEN subs[c] ELSE {}
Count(q, x) == Cardinality({i \in 1..Len(q) : q[i] = x})

\* C1: in every reachable hub state, for every connection X of the hub and
\* every channel name C, X's id is in the Subscription Index entry of C if
\* and only if C is in X's subscribed-channel set.
C1_IndexMatchesChannelSets ==
  \A x \in _clients, c \in Chan :
    (x \in SubsOf(_subscribers, c)) <=> (c \in conn[x].channels)

\* A subscribe that was suspended in authorization has just been granted
\* while another connection holds a subscription.
C1_Witness ==
  /\ ev.op = "auth" /\ ev.r = "true" /\ ev.id \in _clients
  /\ ev.c \in conn[ev.id].channels
  /\ \E y \in _clients \ {ev.id} : conn[y].channels # {}

\* C3: when the authorization callback of a sub{C} returns false, the request
\* adds nothing to the Subscription Index nor to any channel set, and the hub
\* writes exactly one err{C, "unauthorized"} to the requesting connection and
\* nothing to any other connection.
C3_DeniedIsNotSubscribed ==
  [][(ev'.op = "auth" /\ ev'.r = "false") =>
       /\ _subscribers' = _subscribers
       /\ \A x \in _clients : conn'[x] = conn[x]
       /\ _clients' = _clients
       /\ Count(written'[ev'.id], ErrEnv(ev'.c, "unauthorized")) = 1
       /\ \A y \in Ids \ {ev'.id} : written'[y] = << >>]_vars

\* The callback has just returned false to a live connection that is not
\* subscribed to the channel, while another connection is subscribed to it.
C3_Witness ==
  /\ ev.op = "auth" /\ ev.r = "false" /\ ev.id \in _clients
  /\ ev.id \notin SubsOf(_subscribers, ev.c)
  /\ SubsOf(_subscribers, ev.c) # {}

\* C4 (as claimed): send writes exactly one msg{channel, event, data} to every
\* id of the channel's subscriber set other than the excluded one, and
\* nothing to any other connection.
C4_WritesToEverySubscriber ==
  [][ev'.op = "broadcast" =>
       \A i \in Ids :
         written'[i] = IF i \in SubsOf(_subscribers, ev'.c) \ {ev'.id}
                       THEN <<MsgEnv(ev'.c, ev'.e, ev'.d)>> ELSE << >>]_vars

\* C5: a sub{C} from a connection already subscribed to C is answered with
\* ok{C}, invokes no authorization callback, suspends nothing and leaves the
\* Subscription Index and every channel set unchanged.
C5_ResubscribeIsIdempotent ==
  [][(ev'.op = "sub" /\ ev'.c # "" /\ ev'.c \in conn[ev'.id].channels) =>
       /\ written' = [NoWrites EXCEPT ![ev'.id] = <<OkEnv(ev'.c)>>]
       /\ ev'.calls = EmptyBag
       /\ pending' = pending
       /\ _subscribers' = _subscribers
       /\ conn' = conn
       /\ \A c \in Chan :
            Cardinality(SubsOf(_subscribers', c)) = Cardinality(SubsOf(_subscribers, c))]_vars

\* A second sub for the guarded channel has just been answered ok at once.
C5_Witness ==
  /\ ev.op = "sub" /\ ev.c = "chat/1"
  /\ written[ev.id] = <<OkEnv("chat/1")>>
  /\ ev.id \in SubsOf(_subscribers, "chat/1")

\* C6: the close of a connection removes its id from the subscriber set of
\* every channel it was subscribed to (each such count drops by one, every
\* other count and every other connection is unchanged) and discards its
\* record (clientCount drops by one); a repeated close changes nothing.
C6_CloseUnwinds ==
  [][ev'.op = "close" =>
       LET x == ev'.id
       IN IF x \in _clients
          THEN /\ \A c \in Chan :
                    /\ SubsOf(_subscribers', c) = SubsOf(_subscribers, c) \ {x}
                    /\ Cardinality(SubsOf(_subscribers', c)) =
                         Cardinality(SubsOf(_subscribers, c))
                           - (IF c \in conn[x].channels THEN 1 ELSE 0)
               /\ _clients' = _clients \ {x}
               /\ Cardinality(_clients') = Cardinality(_clients) - 1
               /\ \A y \in _clients \ {x} : conn'[y] = conn[y]
          ELSE UNCHANGED hubVars]_vars

\* A connection subscribed to two channels has just been closed while
\* another connection is still subscribed.
C6_Witness ==
  /\ ev.op = "close" /\ ev.r = "removed" /\ ev.d = 2
  /\ \E y \in _clients : conn[y].channels # {}

\* C7: the Subscription Index never holds a channel key whose subscriber set
\* is empty.
C7_NoEmptyEntries == \A c \in DOMAIN _subscribers : _subscribers[c] # {}

\* An unsub has just removed the last subscriber of its channel, and the key
\* of the channel is gone while another channel keeps its entry.
C7_Witness ==
  /\ ev.op = "unsub" /\ ev.r = "removed"
  /\ ev.c \notin DOMAIN _subscribers
  /\ DOMAIN _subscribers # {}

\* The client has reconnected and nothing is in flight, queued or suspended.
Reconnected ==
  /\ ev = Idle /\ pc = "run" /\ ~closeCalled
  /\ nextId > 2
  /\ sock = "open" /\ link /\ _connected
  /\ srv # NoId /\ _clientId = srv /\ srv \in _clients
  /\ c2s = << >> /\ s2c = << >> /\ queue = << >>
  /\ pending = EmptyBag /\ hpending = EmptyBag

Unguarded(c) ==
  /\ matchChannel(c) # 0
  /\ _channels[matchChannel(c)].authorize = "none"

\* C2 (as claimed): once the client has reconnected and every envelope in
\* flight has been processed, the channels the hub records for the new
\* connection are the client's local subscriptions: each recorded channel is
\* a local subscription, and each local subscription to a registered channel
\* without authorization is recorded.
C2_ConsistentAfterReconnect ==
  Reconnected =>
    \A c \in ClientChan :
      /\ c \in conn[srv].channels => c \in Range(subscriptions)
      /\ (c \in Range(subscriptions) /\ Unguarded(c)) => c \in conn[srv].channels

\* C8: when the client handles the welcome of a (re)connection, it passes to
\* the socket one sub per local subscription, in the order of subscription,
\* followed by the queued frames, and the queued frames come after every sub.
C8_ReplayBeforeFlush ==
  [][(ev'.op = "onmessage" /\ ev'.r = "welcome") =>
       LET n == Len(subscriptions)
       IN /\ Len(wsent') = n + Len(queue)
          /\ \A i \in 1..n : wsent'[i] = SubEnv(subscriptions[i])
          /\ \A j \in 1..Len(queue) : wsent'[n + j] = queue[j]
          /\ link => c2s' = c2s \o wsent']_vars

\* The welcome of a reconnection has just been handled with two
\* subscriptions (chat/1 made before news) and one queued frame.
C8_Witness ==
  /\ ev.op = "onmessage" /\ ev.r = "welcome" /\ nextId > 2
  /\ subscriptions = <<"chat/1", "news">>
  /\ Len(wsent) = 3 /\ wsent[3].t = "msg"

\* C9: a Subscription.send made while the client is not connected appends
\* its message to the queue and sends nothing; the queue changes only by such
\* an append or by the flush of a welcome, which passes every queued frame to
\* the new socket in queue order; the queued messages are in the order of
\* their send calls.
C9_BufferedThenFlushed ==
  [][/\ (ev'.op = "send" /\ ~_connected) =>
          /\ queue' = Append(queue, MsgEnv(ev'.c, ev'.e, ev'.d))
          /\ wsent' = << >>
     /\ queue' # queue =>
          \/ /\ Len(queue') = Len(queue) + 1
             /\ SubSeq(queue', 1, Len(queue)) = queue
          \/ /\ ev'.op = "onmessage" /\ ev'.r = "welcome" /\ sock = "open"
             /\ queue' = << >>
             /\ Len(wsent') >= Len(queue)
             /\ SubSeq(wsent', Len(wsent') - Len(queue) + 1, Len(wsent')) = queue
             /\ link => c2s' = c2s \o wsent'
     /\ \A i, j \in 1..Len(queue') :
          (i < j /\ queue'[i].t = "msg" /\ queue'[j].t = "msg")
            => queue'[i].d < queue'[j].d]_vars

\* The welcome of a reconnection has just flushed two messages that were
\* sent while disconnected, the first call first.
C9_Witness ==
  /\ ev.op = "onmessage" /\ ev.r = "welcome" /\ nextId > 2
  /\ \E i, j \in 1..Len(wsent) :
       /\ i < j
       /\ wsent[i] = MsgEnv("chat/1", "send", 1)
       /\ wsent[j] = MsgEnv("chat/1", "send", 2)
  /\ c2s = wsent

\* C10 (as claimed): once close() has been called, the client opens no
\* transport, emits no reconnecting event and holds no reconnect timer.
C10_CloseIsTerminal ==
  [][closeCalled =>
       /\ ev'.op # "connect"
       /\ ~(ev'.op = "onclose" /\ pc' = "emit")
       /\ ~reconnectTimer']_vars

\* The waits of attempts 1..6, in milliseconds.
Backoff == <<1000, 2000, 4000, 8000, 16000, 30000>>

\* C11: the attempt counter is 0 after an open and grows by one each time a
\* reconnect is scheduled; the k-th schedule emits reconnecting{k} and waits
\* Backoff[k] ms for k in 1..6 and 30000 ms beyond (the delay is computed
\* from the incremented counter), and the timer is armed with that delay.
C11_BackoffSequence ==
  [][/\ (ev'.op = "onclose" /\ pc' = "emit") =>
          LET k == reconnectAttempt + 1
          IN /\ reconnectAttempt' = k
             /\ ev'.d = k
             /\ delay' = IF k <= 6 THEN Backoff[k] ELSE 30000
     /\ ev'.op = "onopen" => reconnectAttempt' = 0
     /\ ev'.op = "setTimeout" =>
          /\ ev'.d = delay /\ ev'.d <= 30000 /\ reconnectTimer'
     /\ ev'.op \notin {"onclose", "onopen", "bc.close"} =>
          reconnectAttempt' = reconnectAttempt]_vars

\* The sixth reconnect in a row has just been scheduled, with the capped
\* delay.
C11_Witness ==
  /\ ev.op = "setTimeout" /\ reconnectAttempt = 6 /\ ev.d = 30000
  /\ reconnectTimer

\* The hub state a failed request must leave alone: the index, the records
\* and the channel set of every connection that has a record.
SameSubscriptions ==
  /\ _subscribers' = _subscribers
  /\ _clients' = _clients
  /\ \A x \in _clients : conn'[x].channels = conn[x].channels

\* C12: when the authorization callback of a sub{C} throws, or the request
\* context it awaits is rejected, or was rejected before the sub arrived, the
\* hub writes err{C, "authorization failed"} to the requester (once per
\* request, and never "unauthorized") and nothing to any other connection,
\* subscribes nothing, and keeps the record and the subscriptions of every
\* connection.
C12_AuthorizationFailure ==
  [][/\ (ev'.op = "auth" /\ ev'.r = "throw") =>
          /\ written' = [NoWrites EXCEPT
                           ![ev'.id] = <<ErrEnv(ev'.c, "authorization failed")>>]
          /\ SameSubscriptions
     /\ (ev'.op = "ctx" /\ ev'.r = "rejected") =>
          /\ \A p \in DOMAIN pending :
               p.id = ev'.id =>
                 Count(written'[p.id], ErrEnv(p.c, "authorization failed")) = pending[p]
          /\ \A i \in 1..Len(written'[ev'.id]) :
               /\ written'[ev'.id][i].t = "err"
               /\ written'[ev'.id][i].r = "authorization failed"
          /\ Len(written'[ev'.id]) = BagCardinality(Of(pending, ev'.id))
          /\ \A y \in Ids \ {ev'.id} : written'[y] = << >>
          /\ SameSubscriptions
     /\ (/\ ev'.op = "sub" /\ ev'.c # "" /\ ev'.c \notin conn[ev'.id].channels
         /\ matchChannel(ev'.c) # 0 /\ ~Unguarded(ev'.c)
         /\ conn[ev'.id].ctxReady = "failed") =>
          /\ written' = [NoWrites EXCEPT
                           ![ev'.id] = <<ErrEnv(ev'.c, "authorization failed")>>]
          /\ pending' = pending
          /\ SameSubscriptions]_vars

\* The callback has just thrown for a connection that keeps its record and
\* the subscription it already had.
C12_Witness ==
  /\ ev.op = "auth" /\ ev.r = "throw" /\ ev.id \in _clients
  /\ conn[ev.id].channels # {}
  /\ ev.c \notin conn[ev.id].channels
  /\ written[ev.id] = <<ErrEnv(ev.c, "authorization failed")>>

\* No registered pattern accepts the name.
Unmatched(c) ==
  \A k \in 1..Len(_channels) : ~Exec(_channels[k].regex, CharsOf(c), 1, 1)

\* C13: a sub{C} for a non-empty name that no registered pattern accepts is
\* answered with exactly one err{C, "unknown channel"} to the requester and
\* nothing to any other connection, invokes no authorization callback,
\* suspends nothing and leaves the index and every channel set unchanged.
C13_UnknownChannel ==
  [][(ev'.op = "sub" /\ ev'.c # "" /\ Unmatched(ev'.c)) =>
       /\ written' = [NoWrites EXCEPT
                        ![ev'.id] = <<ErrEnv(ev'.c, "unknown channel")>>]
       /\ ev'.calls = EmptyBag
       /\ pending' = pending
       /\ _subscribers' = _subscribers
       /\ conn' = conn]_vars

\* A sub for a name outside the registry has just been refused while the
\* index holds subscriptions.
C13_Witness ==
  /\ ev.op = "sub" /\ ev.c = "nope" /\ _channels # << >>
  /\ written[ev.id] = <<ErrEnv("nope", "unknown channel")>>
  /\ DOMAIN _subscribers # {}

\* The envelopes of q that answer a sub: ok and err.
Replies(q) == SelectSeq(q, LAMBDA m : m.t \in {"ok", "err"})

\* C14: a sub{C} that matches a registered channel and is unguarded, or that
\* its authorization callback allows, puts C in the channel set of the
\* connection and the connection in the subscriber set of C, and is answered
\* ok{C}; whenever ok{C} is written to a connection, the connection is in the
\* subscriber set of C; a non-empty sub is answered once, by ok{C} or
\* err{C}, in the step that ends it (at once, when authorization returns or
\* throws, or when its context is rejected) and not before, on a transport
\* whose writes do not fail.
C14_SubscribeReplies ==
  [][/\ (ev'.op = "sub" /\ ev'.c # "" /\ ~Unmatched(ev'.c) /\ Unguarded(ev'.c)) =>
          /\ ev'.c \in conn'[ev'.id].channels
          /\ ev'.id \in SubsOf(_subscribers', ev'.c)
          /\ written'[ev'.id] = <<OkEnv(ev'.c)>>
     /\ (ev'.op = "auth" /\ ev'.r = "true") =>
          /\ ev'.id \in _clients => ev'.c \in conn'[ev'.id].channels
          /\ ev'.id \in SubsOf(_subscribers', ev'.c)
          /\ written'[ev'.id] = <<OkEnv(ev'.c)>>
     /\ \A i \in Ids, c \in Chan :
          Count(written'[i], OkEnv(c)) > 0 => i \in SubsOf(_subscribers', c)
     /\ (ev'.op = "sub" /\ ev'.c # "") =>
          \/ /\ pending' = pending
             /\ Len(written'[ev'.id]) = 1
             /\ Replies(written'[ev'.id]) = written'[ev'.id]
             /\ written'[ev'.id][1].c = ev'.c
          \/ /\ pending' = pending (+) SetToBag({[id |-> ev'.id, c |-> ev'.c]})
             /\ written' = NoWrites
     /\ (ev'.op = "auth" /\ ev'.threw = {}) =>
          /\ pending' = pending (-) SetToBag({[id |-> ev'.id, c |-> ev'.c]})
          /\ Len(written'[ev'.id]) = 1
          /\ Replies(written'[ev'.id]) = written'[ev'.id]
          /\ written'[ev'.id][1].c = ev'.c
     /\ ev'.op \notin {"sub", "auth", "ctx"} =>
          /\ pending' = pending
          /\ \A i \in Ids : Replies(written'[i]) = << >>
     /\ ev'.op = "ctx" =>
          \A i \in Ids :
            /\ Replies(written'[i]) = written'[i]
            /\ Len(written'[i]) =
                 BagCardinality(Of(pending, i)) - BagCardinality(Of(pending', i))]_vars

\* Authorization has just allowed a suspended sub of a connection that has a
\* record: it is subscribed and ok is the one envelope written.
C14_Witness ==
  /\ ev.op = "auth" /\ ev.r = "true" /\ ev.threw = {} /\ ev.id \in _clients
  /\ written = [NoWrites EXCEPT ![ev.id] = <<OkEnv(ev.c)>>]
  /\ ev.id \in SubsOf(_subscribers, ev.c)
  /\ ev.c \in conn[ev.id].channels

\* C15: an unsub{C} from connection X leaves C out of the channel set of X
\* and X out of the subscriber set of C whether or not X was subscribed,
\* invokes no callback, suspends and resumes nothing, writes no envelope, and
\* changes no other channel of X, no other subscriber of C and no other
\* connection.
C15_UnsubscribeIsUnconditional ==
  [][ev'.op = "unsub" =>
       LET x == ev'.id
           c == ev'.c
       IN /\ conn'[x].channels = conn[x].channels \ {c}
          /\ c \notin conn'[x].channels
          /\ x \notin SubsOf(_subscribers', c)
          /\ \A k \in Chan :
               SubsOf(_subscribers', k) =
                 IF k = c THEN SubsOf(_subscribers, k) \ {x} ELSE SubsOf(_subscribers, k)
          /\ \A y \in Ids \ {x} : conn'[y] = conn[y]
          /\ conn'[x].ctxReady = conn[x].ctxReady
          /\ _clients' = _clients
          /\ written' = NoWrites
          /\ ev'.calls = EmptyBag
          /\ pending' = pending /\ hpending' = hpending]_vars

\* An unsub has just removed a subscription of a connection that keeps
\* another one, from a channel that keeps another subscriber.
C15_Witness ==
  /\ ev.op = "unsub" /\ ev.r = "removed"
  /\ conn[ev.id].channels # {}
  /\ SubsOf(_subscribers, ev.c) # {}

\* The first definition that accepts the name, by its position; 0 if none.
FirstAccepting(c) ==
  IF Unmatched(c) THEN 0
  ELSE CHOOSE k \in 1..Len(_channels) :
         /\ Exec(_channels[k].regex, CharsOf(c), 1, 1)
         /\ \A m \in 1..k - 1 : ~Exec(_channels[m].regex, CharsOf(c), 1, 1)

\* X is subscribed to C, C resolves, and its definition has a handler for e.
HasHandler(x, c, e) ==
  /\ c # "" /\ e # ""
  /\ c \in conn[x].channels
  /\ FirstAccepting(c) # 0
  /\ e \in _channels[FirstAccepting(c)].messages

\* The handler invocations among the callbacks a task invoked.
HandlerCalls(calls) ==
  LET ks == {q \in DOMAIN calls : q.k = "handler"} IN [q \in ks |-> calls[q]]

\* The invocations that the suspended messages h go on to make.
CallsOf(h) ==
  [q \in {Call("handler", p.id, p.c, p.e, p.d) : p \in DOMAIN h}
     |-> h[[id |-> q.id, c |-> q.c, e |-> q.e, d |-> q.d]]]

\* What no msg changes: the hub state other than the suspended messages.
MsgFrame ==
  /\ written' = NoWrites
  /\ UNCHANGED <<_channels, _clients, conn, _subscribers, pending>>

\* C16 (as claimed): a msg{C, e, d} from X invokes the handler of e of the
\* definition C resolves to, once, with C and d, exactly when X is subscribed
\* to C, C resolves and the definition has that handler (at once, or when the
\* context it awaits settles); any other msg is ignored, with no reply and no
\* state change; no handler is invoked otherwise.
C16_HandlerInvokedIff ==
  [][/\ ev'.op = "msg" =>
          /\ MsgFrame
          /\ IF HasHandler(ev'.id, ev'.c, ev'.e)
             THEN \/ /\ ev'.calls = SetToBag({Call("handler", ev'.id, ev'.c, ev'.e, ev'.d)})
                     /\ hpending' = hpending
                  \/ /\ ev'.calls = EmptyBag
                     /\ conn[ev'.id].ctxReady = "pending"
                     /\ hpending' = hpending (+) SetToBag({[id |-> ev'.id, c |-> ev'.c,
                                                           e |-> ev'.e, d |-> ev'.d]})
             ELSE ev'.calls = EmptyBag /\ hpending' = hpending
     /\ ev'.op = "ctx" =>
          /\ HandlerCalls(ev'.calls) = CallsOf(Of(hpending, ev'.id))
          /\ hpending' = NotOf(hpending, ev'.id)
     /\ ev'.op \notin {"msg", "ctx"} =>
          HandlerCalls(ev'.calls) = EmptyBag /\ hpending' = hpending]_vars

\* C16 (amended): as claimed when the request context of X resolves; when it
\* is rejected, before the msg or while the msg awaits it, the msg is dropped
\* with no handler invoked, no reply and no state change.
C16_HandlerInvokedIffContext ==
  [][/\ ev'.op = "msg" =>
          /\ MsgFrame
          /\ IF HasHandler(ev'.id, ev'.c, ev'.e) /\ conn[ev'.id].ctxReady # "failed"
             THEN \/ /\ conn[ev'.id].ctxReady = "ready"
                     /\ ev'.calls = SetToBag({Call("handler", ev'.id, ev'.c, ev'.e, ev'.d)})
                     /\ hpending' = hpending
                  \/ /\ conn[ev'.id].ctxReady = "pending"
                     /\ ev'.calls = EmptyBag
                     /\ hpending' = hpending (+) SetToBag({[id |-> ev'.id, c |-> ev'.c,
                                                           e |-> ev'.e, d |-> ev'.d]})
             ELSE ev'.calls = EmptyBag /\ hpending' = hpending
     /\ ev'.op = "ctx" =>
          /\ HandlerCalls(ev'.calls) =
               IF ev'.r = "resolved" THEN CallsOf(Of(hpending, ev'.id)) ELSE EmptyBag
          /\ hpending' = NotOf(hpending, ev'.id)
          /\ ev'.r = "rejected" =>
               \A i \in Ids : \A j \in 1..Len(written'[i]) : written'[i][j].t = "err"
     /\ ev'.op \notin {"msg", "ctx"} =>
          HandlerCalls(ev'.calls) = EmptyBag /\ hpending' = hpending]_vars

\* The context of a connection has just resolved and a msg that awaited it
\* has reached its handler.
C16_Witness ==
  /\ ev.op = "ctx" /\ ev.r = "resolved"
  /\ \E q \in DOMAIN ev.calls : q.k = "handler" /\ q.id = ev.id /\ q.c = "news"

\* What a broadcast leaves alone: the registry, the connection records, the
\* Subscription Index and every suspended request.
BroadcastFrame ==
  UNCHANGED <<_channels, _clients, conn, _subscribers, pending, hpending>>

\* C17: when ws.send throws for one subscriber during a broadcast, every
\* other connected subscriber of the channel (the excluded id apart) is still
\* written the envelope once, nobody else is written to, the send returns
\* normally, and no subscription or connection state changes.
C17_WriteFailureIsSwallowed ==
  [][(ev'.op = "broadcast" /\ ev'.threw # {}) =>
       /\ ev'.threw \subseteq (SubsOf(_subscribers, ev'.c) \cap _clients) \ {ev'.id}
       /\ \A i \in Ids :
            written'[i] = IF i \in (SubsOf(_subscribers, ev'.c) \cap _clients) \ {ev'.id}
                          THEN <<MsgEnv(ev'.c, ev'.e, ev'.d)>> ELSE << >>
       /\ ev'.calls = EmptyBag
       /\ BroadcastFrame]_vars

\* The write to the first subscriber has just thrown and a later subscriber
\* of the same channel has been written the envelope.
C17_Witness ==
  /\ ev.op = "broadcast" /\ ev.threw # {}
  /\ \E b \in ev.threw, i \in Ids \ ev.threw :
       /\ b < i
       /\ i \in SubsOf(_subscribers, ev.c) \cap _clients
       /\ written[i] = <<MsgEnv(ev.c, ev.e, ev.d)>>

\* With the event loop idle, the hub takes and finishes a request of
\* connection y: any unsub, a sub that is answered at once, a sub or a msg
\* that has to wait for a callback of its own, and any msg.
Serves(y) ==
  /\ \A c \in Chan : ENABLED (Unsub /\ ev'.id = y /\ ev'.c = c)
  /\ \A c \in {"", "news", "nope"} :
       ENABLED (Sub /\ ev'.id = y /\ ev'.c = c /\ pending' = pending
                    /\ (c # "" => Len(written'[y]) = 1))
  /\ BagCardinality(pending) < MaxPending =>
       ENABLED (Sub /\ ev'.id = y /\ ev'.c = "chat/1")
  /\ \A f \in MsgFrames :
       BagCardinality(hpending) < MaxHeld =>
         ENABLED (Msg /\ ev'.id = y /\ ev'.c = f[1] /\ ev'.e = f[2])

\* With the event loop idle, the hub performs a broadcast to any channel.
Broadcasts == \A c \in Chan \ {""} : ENABLED (Broadcast /\ ev'.c = c)

\* The suspended requests of connection x for channel c.
Suspended(b, x, c) == CopiesIn([id |-> x, c |-> c], b)

\* C18: while a subscribe is suspended in its authorization, the requests
\* of every other connection and the broadcasts are taken and finished; and
\* as long as the suspended request is not resumed it yields no reply and no
\* subscription: an ok/err for its channel, or its connection entering the
\* channel's subscriber set, comes only from a step that resumes a suspended
\* request of that connection for that channel or from a further sub of it.
C18_HungBlocksOnlyItself ==
  /\ []((ev = Idle /\ pending # EmptyBag) =>
          /\ Broadcasts
          /\ \A y \in _clients :
               (\E p \in BagToSet(pending) : p.id # y) => Serves(y))
  /\ [][\A x \in Ids, c \in Chan \ {""} :
          (/\ Suspended(pending, x, c) > 0
           /\ Suspended(pending', x, c) >= Suspended(pending, x, c)
           /\ ~(ev'.op = "sub" /\ ev'.id = x /\ ev'.c = c)) =>
            /\ \A j \in 1..Len(written'[x]) :
                 written'[x][j].t \in {"ok", "err"} => written'[x][j].c # c
            /\ x \in SubsOf(_subscribers', c) => x \in SubsOf(_subscribers, c)]_vars

\* A subscribe of one connection is suspended and another connection's sub
\* has just been answered.
C18_Witness ==
  /\ ev.op = "sub" /\ ev.id \in _clients
  /\ Len(written[ev.id]) = 1
  /\ \E p \in BagToSet(pending) : p.id # ev.id /\ p.id \in _clients

\* The connections a task wrote to.
WrittenTo(w) == {i \in Ids : w[i] # << >>}

\* C19 (as claimed): the connections one send() writes to are the ids of the
\* channel's subscriber set, the excluded one apart, as the Subscription
\* Index holds them when the send runs (the send itself leaves the index as
\* it is), and that set is the set of connections whose own channel set has
\* the channel: the send sees no subscribe, unsubscribe or close half done.
C19_BroadcastSeesOneInstant ==
  [][ev'.op = "broadcast" =>
       /\ _subscribers' = _subscribers
       /\ WrittenTo(written') = SubsOf(_subscribers, ev'.c) \ {ev'.id}
       /\ SubsOf(_subscribers, ev'.c)
            = {i \in _clients : ev'.c \in conn[i].channels}]_vars

\* The definitions of the registry whose regex accepts the name.
Accepting(name) ==
  {k \in 1..Len(_channels) : Exec(_channels[k].regex, CharsOf(name), 1, 1)}

\* C20: whatever patterns were registered and in whatever order, resolving a
\* name returns the definition registered earliest among those whose regex
\* accepts it, null when none accepts it, and leaves the registry as it
\* was: a later definition is never returned in place of an earlier one
\* that accepts the name.
C20_ResolveReturnsEarliest ==
  [][ev'.op = "resolve" =>
       /\ _channels' = _channels
       /\ IF Accepting(ev'.c) = {}
          THEN ev'.d = 0 /\ ev'.r = ""
          ELSE /\ ev'.d \in Accepting(ev'.c)
               /\ \A m \in Accepting(ev'.c) : ev'.d <= m
               /\ ev'.r = _channels[ev'.d].pattern]_vars

\* A name has just been resolved to a definition registered before another,
\* narrower or broader one that accepts the name as well.
C20_Witness ==
  /\ ev.op = "resolve" /\ ev.d # 0
  /\ \E m \in Accepting(ev.c) :
       m > ev.d /\ _channels[m].pattern # _channels[ev.d].pattern

\* The segments of a text: what stands between its "/".
RECURSIVE Split(_)
Split(s) ==
  IF \A i \in 1..Len(s) : s[i] # "/" THEN <<s>>
  ELSE LET i == CHOOSE x \in 1..Len(s) : s[x] = "/" /\ \A y \in 1..x - 1 : s[y] # "/"
       IN <<SubSeq(s, 1, i - 1)>> \o Split(SubSeq(s, i + 1, Len(s)))

\* What a segment of a pattern is: a ":name", a "*name" or a literal.
Kind(seg) ==
  IF Len(seg) > 1 /\ seg[1] = ":" THEN "seg"
  ELSE IF Len(seg) > 1 /\ seg[1] = "*" THEN "rest"
  ELSE "lit"

\* The pattern has no "*name" or has it as its last segment.
TrailingWildcard(ps) == \A i \in 1..Len(ps) : Kind(ps[i]) = "rest" => i = Len(ps)

\* The segments ns are what the pattern segments ps ask for: a literal is
\* met by itself, a ":name" by one non-empty segment, a trailing "*name" by
\* a non-empty remainder, and nothing is left over on either side.
RECURSIVE Fits(_, _)
Fits(ps, ns) ==
  IF ps = << >> THEN ns = << >>
  ELSE IF ns = << >> THEN FALSE
  ELSE IF Kind(ps[1]) = "rest" THEN Join(ns) # << >>
  ELSE IF Kind(ps[1]) = "seg" THEN ns[1] # << >> /\ Fits(Tail(ps), Tail(ns))
  ELSE ns[1] = ps[1] /\ Fits(Tail(ps), Tail(ns))

\* The texts the parameters of ps stand for in ns, from left to right.
RECURSIVE Caught(_, _)
Caught(ps, ns) ==
  IF ps = << >> \/ ns = << >> THEN << >>
  ELSE IF Kind(ps[1]) = "rest" THEN <<Join(ns)>>
  ELSE IF Kind(ps[1]) = "seg" THEN <<ns[1]>> \o Caught(Tail(ps), Tail(ns))
  ELSE Caught(Tail(ps), Tail(ns))

\* The parameter names of a pattern in the order the pattern declares them.
RECURSIVE Declared(_)
Declared(ps) ==
  IF ps = << >> THEN << >>
  ELSE IF Kind(ps[1]) = "lit" THEN Declared(Tail(ps))
  ELSE <<Tail(ps[1])>> \o Declared(Tail(ps))

\* C21: a pattern whose "*name", if it has one, comes last accepts a name
\* exactly when the whole name is, segment by segment, what the pattern asks
\* for: a literal segment itself, a ":name" one non-empty segment without
\* "/", a trailing "*name" the whole non-empty remainder with its "/"; the
\* groups of the match are those segments and that remainder, and a pattern
\* with one parameter yields that parameter with that text (chats/:id takes
\* chats/42 with id = 42 and rejects chats/42/messages and chats;
\* files/*path takes files/a/b/c with path = a/b/c).
C21_AnchoredSegments ==
  [][ev'.op = "exec" =>
       LET ps == Split(ev'.pattern)
           ns == Split(ev'.name)
       IN TrailingWildcard(ps) =>
            /\ ev'.matched <=> Fits(ps, ns)
            /\ ev'.matched =>
                 /\ ev'.groups = Caught(ps, ns)
                 /\ Len(Declared(ps)) = 1 =>
                      ev'.params = [n \in {Declared(ps)[1]} |-> Caught(ps, ns)[1]]]_vars

\* files/*path has just matched files/a/b/c with path = a/b/c.
C21_Witness ==
  /\ ev.op = "exec"
  /\ ev.pattern = <<"f", "i", "l", "e", "s", "/", "*", "p", "a", "t", "h">>
  /\ ev.name = <<"f", "i", "l", "e", "s", "/", "a", "/", "b", "/", "c">>
  /\ ev.matched
  /\ ev.params = [n \in {<<"p", "a", "t", "h">>} |-> <<"a", "/", "b", "/", "c">>]

\* C22 (as claimed): whenever a pattern matches a name, each parameter the
\* pattern declares is mapped to the text of the group at that parameter's
\* own position in the pattern, ":name" segments before a trailing "*name"
\* included (files/:user/*path on files/bob/a/b gives user = bob and
\* path = a/b).
C22_ParamsInDeclaredOrder ==
  [][(ev'.op = "exec" /\ ev'.matched) =>
       LET names == Declared(Split(ev'.pattern))
       IN /\ DOMAIN ev'.params = {names[i] : i \in 1..Len(names)}
          /\ Len(ev'.groups) = Len(names)
          /\ \A i \in 1..Len(names) : ev'.params[names[i]] = ev'.groups[i]]_vars

\* C23 (as claimed): leave() removes the channel from the replay set; a
\* connected client sends one unsub{channel} in that call, a client that is
\* not connected sends nothing then, and no unsub is ever sent outside a
\* leave() call, after a later reconnection included.
C23_LeaveUnsubOnlyIfConnected ==
  [][/\ ev'.op = "leave" =>
          /\ subscriptions' = Without(subscriptions, ev'.c)
          /\ wsent' = IF _connected THEN <<UnsubEnv(ev'.c)>> ELSE << >>
     /\ ev'.op # "leave" => Count(wsent', UnsubEnv("news")) + Count(wsent', UnsubEnv("chat/1")) = 0]_vars

\* C24: a transport close begins a reconnect exactly when the attempt
\* counter is below maxReconnectAttempts, and then the counter grows by one
\* and stays within the limit; a timer is armed by such a reconnect only;
\* onopen resets the counter to 0 and only onopen, onclose and close()
\* change it, so no more than maxReconnectAttempts attempts follow one
\* another without a successful open; with the default limit every
\* transport close before close() is called begins a reconnect.
C24_ReconnectsBelowLimit ==
  [][/\ ev'.op = "onclose" =>
          IF reconnectAttempt < maxReconnectAttempts
          THEN /\ pc' = "emit"
               /\ reconnectAttempt' = reconnectAttempt + 1
               /\ reconnectAttempt' <= maxReconnectAttempts
               /\ ev'.d = reconnectAttempt'
          ELSE /\ pc' = "run"
               /\ reconnectAttempt' = reconnectAttempt
               /\ ev'.d = 0
     /\ (ev'.op = "onclose" /\ maxReconnectAttempts = Infinity /\ ~closeCalled) =>
          pc' = "emit"
     /\ ev'.op = "setTimeout" => pc = "emit" /\ reconnectTimer'
     /\ ev'.op # "setTimeout" => (reconnectTimer' => reconnectTimer)
     /\ ev'.op = "connect" => reconnectTimer /\ ~reconnectTimer'
     /\ ev'.op = "onopen" => reconnectAttempt' = 0
     /\ ev'.op \notin {"onclose", "onopen", "bc.close"} =>
          reconnectAttempt' = reconnectAttempt
     /\ maxReconnectAttempts' = maxReconnectAttempts]_vars

\* A client with a finite limit has used up its attempts: its transport
\* has just closed and no reconnect was begun.
C24_Witness ==
  /\ ev.op = "onclose" /\ ev.d = 0 /\ pc = "run"
  /\ ~closeCalled
  /\ maxReconnectAttempts \in 1..MaxLimit
  /\ reconnectAttempt = maxReconnectAttempts

\* C25: subscribe(C) leaves C in the client's subscriptions whatever the
\* state of the connection; when C is already there it returns the existing
\* Subscription, changes nothing and sends nothing; when it is not, a
\* connected client sends one sub{C} and a client that is not connected
\* sends nothing; and the welcome of every connection is answered with one
\* sub for each channel then subscribed, so a deferred sub{C} goes out on
\* the next connection.
C25_SubscribeIsIdempotent ==
  [][/\ ev'.op = "subscribe" =>
          /\ ev'.c \in Range(subscriptions')
          /\ IF ev'.c \in Range(subscriptions)
             THEN /\ ev'.r = "existing"
                  /\ subscriptions' = subscriptions
                  /\ wsent' = << >>
             ELSE /\ ev'.r = "created"
                  /\ subscriptions' = Append(subscriptions, ev'.c)
                  /\ wsent' = IF _connected THEN <<SubEnv(ev'.c)>> ELSE << >>
          /\ queue' = queue
     /\ (ev'.op = "onmessage" /\ ev'.r = "welcome") =>
          /\ subscriptions' = subscriptions
          /\ \A c \in ClientChan :
               Count(wsent', SubEnv(c)) = Count(subscriptions, c)
     /\ \A c \in ClientChan : Count(subscriptions', c) <= 1]_vars

\* A connected client has just called subscribe for a channel it already
\* holds.
C25_Witness ==
  /\ ev.op = "subscribe" /\ ev.r = "existing"
  /\ _connected /\ sock = "open" /\ link
  /\ subscriptions = <<"news", "chat/1">>

\* C26 (as claimed): a denial by the authorization callback adds the
\* requester to no subscriber set and leaves its other subscriptions as they
\* are; the client emits 'error' with the channel and the reason for the
\* err envelope, and a Subscription made by one subscribe() call sees that
\* event once: never a second time.
C26_DeniedSeesOneError ==
  [][/\ (ev'.op = "auth" /\ ev'.r = "false") =>
          /\ _subscribers' = _subscribers
          /\ \A i \in _clients : conn'[i].channels = conn[i].channels
     /\ (ev'.op = "onmessage" /\ ev'.r = "err" /\ Head(s2c).r = "unauthorized") =>
          /\ ev'.calls = SetToBag({Call("error", NoId, ev'.c, "unauthorized", 0)})
          /\ ev'.c \notin denied]_vars

\* C27: 'connected' is emitted by every onopen and only there, and the client
\* is then not yet connected; 'disconnected' is emitted by an onclose exactly
\* when the client was connected, so not for an attempt that failed before
\* it opened; _connected, which tells which of the two was emitted last and
\* starts false, changes nowhere else: the two events alternate, 'connected'
\* first. A transport close surfaces as 'disconnected' and 'reconnecting'
\* and as nothing else.
C27_ConnectedDisconnectedAlternate ==
  [][/\ ev'.op = "onopen" => ~_connected /\ _connected'
     /\ ev'.op = "onclose" =>
          /\ ev'.r = (IF _connected THEN "disconnected" ELSE "")
          /\ ~_connected'
          /\ ev'.calls = EmptyBag /\ ev'.threw = {}
     /\ ev'.op \notin {"onopen", "onclose"} =>
          _connected' = _connected /\ ev'.r # "disconnected"]_vars

\* A client that had been connected before has just lost a connection
\* attempt that never opened: no 'disconnected' for it.
C27_Witness ==
  /\ ev.op = "onclose" /\ ev.r = "" /\ ev.d >= 1
  /\ _clientId # NoId /\ ~closeCalled

\* C28: a msg envelope calls the listeners the current Subscription of its
\* channel has for exactly its event, with its data, and no other callback;
\* without such a Subscription or listener it is dropped and nothing else
\* changes. ok calls 'subscribed' with the channel, err calls 'error' with
\* the channel and the reason. ping is answered with exactly one pong and
\* calls nothing. No envelope other than welcome and ping makes the client
\* send, and none changes the subscriptions or their listeners.
C28_EnvelopesReachTheirListeners ==
  [][ev'.op = "onmessage" =>
       LET msg == Head(s2c)
           heard == /\ msg.t = "msg"
                    /\ msg.c \in Range(subscriptions)
                    /\ msg.e \in listeners[msg.c]
       IN /\ \A k \in BagToSet(ev'.calls) :
               /\ CopiesIn(k, ev'.calls) = 1
               /\ k.k = "listener" =>
                    heard /\ k.c = msg.c /\ k.e = msg.e /\ k.d = msg.d
               /\ k.k = "subscribed" => msg.t = "ok" /\ k.c = msg.c
               /\ k.k = "error" => msg.t = "err" /\ k.c = msg.c /\ k.e = msg.r
               /\ k.k \in {"listener", "subscribed", "error"}
          /\ BagCardinality(ev'.calls) =
               (IF heard \/ msg.t \in {"ok", "err"} THEN 1 ELSE 0)
          /\ msg.t = "ping" => wsent' = <<PongEnv>>
          /\ msg.t \notin {"ping", "welcome"} => wsent' = << >> /\ c2s' = c2s
          /\ msg.t # "welcome" => _clientId' = _clientId /\ queue' = queue
          /\ subscriptions' = subscriptions /\ listeners' = listeners]_vars

\* A msg for an event the Subscription has no listener for has just been
\* dropped, while the Subscription listens for another event and the other
\* channel's Subscription listens for this one.
C28_Witness ==
  /\ ev.op = "onmessage" /\ ev.r = "msg" /\ ev.calls = EmptyBag
  /\ ev.c \in Range(subscriptions)
  /\ listeners[ev.c] # {} /\ ev.e \notin listeners[ev.c]
  /\ \E c \in Range(subscriptions) \ {ev.c} : ev.e \in listeners[c]

\* C29: an open gives the connection an id no connection had before (ids
\* are handed out in increasing order and no record, subscriber entry or
\* suspended task carries the new one), registers it with an empty channel
\* set so that clientCount grows by one, and writes welcome{id} to it in
\* the same step, whether or not its request context has resolved; no
\* other step writes to a transport that has not been welcomed.
C29_OpenWelcomesAFreshId ==
  [][/\ ev'.op = "open" =>
          LET id == ev'.id
          IN /\ id = nextId /\ nextId' = nextId + 1
             /\ id \notin _clients /\ conn[id] = NoConn
             /\ \A p \in BagToSet(pending) \cup BagToSet(hpending) : p.id # id
             /\ _clients' = _clients \cup {id}
             /\ clientCount' = clientCount + 1
             /\ conn'[id].channels = {}
             /\ \A c \in DOMAIN _subscribers' : id \notin _subscribers'[c]
             /\ written' = [NoWrites EXCEPT ![id] = <<WelcomeEnv(id)>>]
     /\ ev'.op # "open" =>
          /\ nextId' = nextId
          /\ \A i \in Ids : i >= nextId => written'[i] = << >>]_vars

\* The third connection has just been opened and welcomed while its request
\* context is pending; an earlier connection is gone, another is subscribed.
C29_Witness ==
  /\ ev.op = "open" /\ ev.id = 3
  /\ conn[ev.id].ctxReady = "pending"
  /\ written[ev.id] = <<WelcomeEnv(ev.id)>>
  /\ clientCount = 2
  /\ \E i \in _clients : conn[i].channels # {}

\* C30: while the client is connected over an open transport, that is from
\* the 'connected' event of onopen on, clientId is not null and is the id
\* the hub gave this transport.
C30_ClientIdOnceConnected ==
  (_connected /\ sock = "open") => (_clientId # NoId /\ _clientId = srv)

\* C31: a frame the hub cannot parse, or whose type tag it does not know,
\* is dropped: the hub writes nothing to any transport, the connection
\* stays registered with the channels it had, and the subscriber sets, the
\* suspended tasks and the registry are as before.
C31_MalformedFrameIsDropped ==
  [][ev'.op = "malformed" =>
       /\ written' = NoWrites
       /\ ev'.calls = EmptyBag
       /\ ev'.id \in _clients'
       /\ _clients' = _clients /\ conn' = conn
       /\ _subscribers' = _subscribers
       /\ pending' = pending /\ hpending' = hpending
       /\ _channels' = _channels]_vars

\* A connection that is subscribed and has a subscribe suspended has just
\* sent a frame the hub cannot read.
C31_Witness ==
  /\ ev.op = "malformed"
  /\ conn[ev.id].channels # {}
  /\ \E p \in BagToSet(pending) : p.id = ev.id
  /\ clientCount = 2

\* C32: a keepalive tick writes one ping to every connection registered at
\* the tick and to no other, whichever of these writes throw; it removes
\* no connection and changes no channel set, subscriber set or suspended
\* task. A connection leaves the registry only in close (and in reset,
\* which clears it). Without a timer, as after boot with pingInterval 0, no
\* tick runs and no ping is written.
C32_PingReachesEveryLiveConnection ==
  [][/\ ev'.op = "ping" =>
          /\ _pingTimer
          /\ \A i \in Ids :
               written'[i] = (IF i \in _clients THEN <<PingEnv>> ELSE << >>)
          /\ ev'.threw \subseteq _clients
          /\ _clients' = _clients /\ conn' = conn
          /\ _subscribers' = _subscribers
          /\ pending' = pending /\ hpending' = hpending
     /\ ~(_clients \subseteq _clients') => ev'.op \in {"close", "reset"}
     /\ ~_pingTimer =>
          /\ ~_pingTimer'
          /\ \A i \in Ids : PingEnv \notin Range(written'[i])]_vars

\* A tick has just pinged three connections, the write to one of them
\* threw, and that connection is subscribed.
C32_Witness ==
  /\ ev.op = "ping" /\ clientCount = 3
  /\ \E b \in ev.threw :
       /\ conn[b].channels # {}
       /\ \E i \in _clients : i > b /\ written[i] = <<PingEnv>>

\* C33: when reset() returns there is no channel definition, no connection
\* (clientCount is 0) and no subscriber entry (subscriberCount is 0 for
\* every channel), and the keepalive timer is gone. From then on the
\* registry stays empty and the timer stays cancelled: no tick runs, no ping
\* is written, and every sub the hub receives is answered with 'unknown
\* channel', or ignored when it names no channel, and subscribes nothing.
C33_ResetClearsTheHub ==
  [][/\ ev'.op = "reset" =>
          /\ _channels' = << >> /\ _clients' = {} /\ _subscribers' = << >>
          /\ clientCount' = 0
          /\ \A c \in Chan : subscriberCount(c)' = 0
          /\ _middleware' = << >>
          /\ ~_pingTimer'
          /\ written' = NoWrites
     /\ ~_pingTimer =>
          /\ _channels' = << >> /\ ~_pingTimer'
          /\ ev'.op # "ping"
          /\ \A i \in Ids : PingEnv \notin Range(written'[i])
          /\ ev'.op = "sub" =>
               /\ written' = [NoWrites EXCEPT ![ev'.id] =
                                IF ev'.c = "" THEN << >>
                                ELSE <<ErrEnv(ev'.c, "unknown channel")>>]
               /\ ev'.calls = EmptyBag
               /\ _subscribers' = _subscribers /\ conn' = conn
               /\ pending' = pending]_vars

\* After a reset that found two connections, one of them subscribed to
\* news, a new connection has asked for news and was told 'unknown channel'.
C33_Witness ==
  /\ ev.op = "sub" /\ ev.c = "news" /\ ~_pingTimer
  /\ ev.id = 3 /\ _clients = {3}
  /\ written[3] = <<ErrEnv("news", "unknown channel")>>

\* C34: every id in a subscriber set is the id of a registered connection,
\* so no channel has more subscribers than there are connections.
C34_SubscribersAreLive ==
  \A c \in DOMAIN _subscribers :
    /\ _subscribers[c] \subseteq _clients
    /\ subscriberCount(c) <= clientCount

\* C35: a subscribe is granted only if every msg its connection sent for
\* the channel after the sub, for an event the definition has a handler for,
\* has been handed to that handler or is held for it: none was ignored while
\* the subscribe was suspended.
C35_MsgAfterSubReachesHandler ==
  [][(ev'.op = "auth" /\ Allowed(ev'.r)) =>
       Mark(ev'.id, ev'.c, "msg") \notin since]_vars

\* C36: when the last request of a connection for a channel was an unsub
\* and no subscribe of it for the channel is suspended any more, the
\* connection is not subscribed to the channel.
C36_LastRequestDecides ==
  [][\A m \in since :
       (m.t = "unsub" /\ ~Waiting(pending', m.id, m.c)) =>
         /\ m.c \notin conn'[m.id].channels
         /\ m.id \notin SubsOf(_subscribers', m.c)]_vars

\* C37: the client transmits the messages of Subscription.send in the order
\* of the calls: the messages one task transmits are in that order, and
\* none of them is transmitted while a message of an earlier call is still
\* in the queue.
C37_MessagesKeepSendOrder ==
  [][\A i \in 1..Len(wsent') :
       wsent'[i].t = "msg" =>
         /\ \A j \in 1..Len(queue') :
              queue'[j].t = "msg" => queue'[j].d > wsent'[i].d
         /\ \A j \in 1..(i - 1) :
              wsent'[j].t = "msg" => wsent'[j].d < wsent'[i].d]_vars

\* C38: a pattern accepts a name only if every literal segment of the
\* pattern stands in the name character for character (with ":name"
\* standing for one segment and a trailing "*name" for the remainder).
C38_StaticPartsMatchThemselves ==
  [][(ev'.op = "exec" /\ ev'.matched) =>
       LET ps == Split(ev'.pattern)
           ns == Split(ev'.name)
       IN TrailingWildcard(ps) => Fits(ps, ns)]_vars

\* C39: a transport is made only when the previous one is neither
\* connecting nor open, so at most one is; a reconnect timer is armed only
\* when none is pending and only by the step that follows a transport
\* close (with close() possibly called in between by a listener), once per
\* close; and no timer is pending while the transport is connecting or open.
C39_OneTransportOneTimer ==
  [][/\ ev'.op = "connect" =>
          /\ sock \notin {"connecting", "open"}
          /\ reconnectTimer /\ ~reconnectTimer'
     /\ ev'.op = "setTimeout" =>
          /\ ~reconnectTimer
          /\ ev.op \in {"onclose", "bc.close"}
          /\ sock = "closed"
     /\ (reconnectTimer' /\ ~reconnectTimer) => ev'.op = "setTimeout"
     /\ (sock' \in {"connecting", "open"} /\ sock \notin {"connecting", "open"})
          => ev'.op = "connect"
     /\ reconnectTimer' => sock' \notin {"connecting", "open"}]_vars

\* The timer of the third reconnect in a row is pending and the transport
\* is closed.
C39_Witness ==
  /\ reconnectTimer /\ sock = "closed"
  /\ reconnectAttempt = 3 /\ ev.op = "setTimeout"

\* The hub opened connection i and has processed its close, or a reset.
Closed(i) == i < nextId /\ i \notin _clients

\* C40: a connection whose close (or a reset) the hub has processed stays
\* closed, and no broadcast writes to its transport, whether or not its id
\* is in a subscriber set.
C40_NoBroadcastAfterClose ==
  [][\A i \in Ids :
       Closed(i) =>
         /\ Closed(i)'
         /\ ev'.op = "broadcast" => written'[i] = << >>]_vars

\* A broadcast has just written to a live subscriber and passed over the id
\* a subscribe suspended across the close of its connection left in the
\* subscriber set.
C40_Witness ==
  /\ ev.op = "broadcast"
  /\ \E i \in SubsOf(_subscribers, ev.c) :
       Closed(i) /\ i # ev.id /\ written[i] = << >>
  /\ \E j \in _clients : written[j] = <<MsgEnv(ev.c, ev.e, ev.d)>>

====
